---- MODULE Spec2Model ----
(***************************************************************************)
(* Orchestration core of the dashboard controller (src/frontend/app.js,    *)
(* class Dashboard): the discovery loop, the client-side single-flight     *)
(* enrichment policy with queued auto-enrich, the enrichment event stream  *)
(* and the deferred loop-completion notification.                          *)
(*                                                                         *)
(* The browser runs one handler at a time.  An async method is cut at each *)
(* await of a network request or timer; the code between two such awaits   *)
(* is one atomic action.  An await of an async method that returns without *)
(* a request only yields to the microtask queue, where no event handler    *)
(* can run, so it does not end an action.                                  *)
(***************************************************************************)
EXTENDS Integers, Sequences, FiniteSets, Bags, TLC

\* ---------------------------------------------------------------- bounds
MaxRuns == 2            \* successful runs modelled per loop
MaxDiscoveries == 2     \* loops and one-shot runs started in one behaviour
MaxJobs == 2            \* enrichment jobs the server accepts in one behaviour
MaxEntities == 2        \* entity ids a job's target set is drawn from
MaxTrackedJobs == 2     \* jobs the Job Tracker creates in one behaviour
MaxNotifyFailures == 2  \* failed completion notifications per queued payload
MaxStatsCalls == 4      \* loadStats calls in one behaviour
MaxVersion == 2         \* loop completions the aggregator reports
Unit == 2               \* settings numbers are counted in 1/Unit, so Unit is 1.0
MaxStoredNumber == 4    \* largest stored number, in 1/Unit
MaxKeywordPieces == 2   \* comma-separated pieces of a stored keyword text
MaxInvalidCalls == 1    \* calls counted per kind of invalid input
MaxTotal == 1           \* largest total a start reply reports
MaxTableLoads == 2      \* loadTable replies applied in one behaviour
MaxChannelEvents == 1   \* 'channel' stream events handled in one behaviour
MaxViewRows == 2        \* rows of one loaded page
MaxStateSteps == 3      \* loads, events and archive replies of the older page
MaxStreamEvents == 3    \* messages the server sends on one event stream
MaxSubscribers == 2     \* event streams opened in one behaviour
MaxStarts == 3          \* start() calls in one behaviour
MaxCategoryMoves == 1   \* archive, blacklist or restore calls in one behaviour
FoundValues == {0, 2}   \* response.found of a discovery run

Null == -1              \* JavaScript null for numeric fields
NaN == -2               \* Number(x) of an x that is not numeric
NoJob == 0              \* this.eventSource === null
Open == 1               \* this.eventSource is the stream of the running job
RetryDelayMs == 3000    \* setTimeout(() => this.tryFinalizeDiscoveryLoop(), 3000)

NoText == ""            \* null or the empty string in a text field
TableLimit == 50        \* createTableState: limit: 50

NoPayload == [runs |-> 0, discovered |-> 0, reason |-> "null", error |-> FALSE]

VARIABLES
  enrichmentBusy,                 \* this.enrichmentBusy
  eventSource,                    \* Open while a stream is open, NoJob if null
  pendingAutoEnrich,              \* this.pendingAutoEnrich
  discoveryLoopActive,            \* this.discoveryLoopActive
  discoveryLoopStopping,          \* this.discoveryLoopStopping
  discoveryLoopStats,             \* this.discoveryLoopStats {runs, found}
  discoveryLoopCompletionPayload, \* queued completion payload or NoPayload
  finalizingDiscoveryLoop,        \* this.finalizingDiscoveryLoop
  discoverySettings,              \* this.discoverySettings (fields used here)
  loop,       \* position of the startDiscoveryLoop invocation
  run,        \* position of a one-shot performDiscoveryRun invocation
  manual,     \* position of a manual handleEnrich invocation
  doneH,      \* bag of suspended onmessage handlers of done events
  notifyInFlight,   \* bag of notifyDiscoveryLoopComplete requests in flight
  retryTimers,      \* pending setTimeout(tryFinalizeDiscoveryLoop, 3000)
  discoveriesStarted, \* loops and one-shot runs started so far
  jobsStarted,      \* start requests the server has accepted so far
  stopNotifications,\* notifyDiscoveryLoopStop requests sent since the last loop start
  loopInstances,    \* startDiscoveryLoop invocations inside their run sequence
  discoverSettingsOpen, \* the settings dialog is shown (modal not hidden)
  notifyFailures,   \* failed notifyDiscoveryLoopComplete calls since the last queueing
  lastRetryDelay,   \* delay of the retry timer armed last since then, 0 if none
  jobs,             \* Job Tracker: the sequence of job records, by job id
  statsPromise,     \* this.statsPromise is set
  lastLoopCompletionVersion, \* this.lastLoopCompletionVersion
  fetchStatsInFlight,  \* fetchStats requests in flight
  statsRefreshInFlight,\* loadTable requests of maybeRefreshAfterLoop in flight
  statsCalls,       \* loadStats calls so far
  lastStatsOutcome, \* how the last fetchStats request settled
  refreshed,        \* per completion version, refreshes started for it
  notified,         \* per completion version, notices shown for it
  aggregator,       \* the server's discoveryLoop status and activity
  localStorage,     \* the item stored under DISCOVERY_SETTINGS_STORAGE_KEY
  fullSettings,     \* this.discoverySettings with every persisted field
  streamTotal,      \* `total` captured by the handlers of the open stream
  invalidLimitCalls, \* calls and submits made with a limit that is no positive number
  emptyKeywordSubmits, \* submits made with an empty keyword list
  tables,           \* this.tables: per category the rows, total, page and query
  tableLoads,       \* loadTable replies applied so far
  channelEvents,    \* 'channel' stream events handled so far
  lastUpdate,       \* payload of the 'channel' event handled last
  state,            \* older page script: state.rows, total, includeArchived
  stateOp,          \* what changed `state` last: load, event or archive
  stateSteps,       \* changes of `state` so far
  entities,         \* server: category, status and status reason per entity
  lastStart,        \* the last start() call: its arguments, the entities it
                    \* found and its reply
  lastProcessed,    \* the entity processed last, its job and its outcome
  subscribers,      \* event streams of the Job Tracker and the client at the
                    \* end of each: queued events, handled events, display
  streams           \* the EventSource objects the controller has created:
                    \* readyState, events in flight, events handled

clientVars == <<enrichmentBusy, eventSource, pendingAutoEnrich, discoveryLoopActive,
          discoveryLoopStopping, discoveryLoopStats,
          discoveryLoopCompletionPayload,
          finalizingDiscoveryLoop, discoverySettings, loop, run, manual, doneH,
          notifyInFlight, retryTimers, discoveriesStarted, jobsStarted,
          stopNotifications, loopInstances, discoverSettingsOpen,
          notifyFailures, lastRetryDelay>>

statsVars == <<statsPromise, lastLoopCompletionVersion, fetchStatsInFlight,
               statsRefreshInFlight, statsCalls, lastStatsOutcome, refreshed,
               notified, aggregator>>

settingsVars == <<localStorage, fullSettings>>

validationVars == <<streamTotal, invalidLimitCalls, emptyKeywordSubmits>>

viewVars == <<tables, tableLoads, channelEvents, lastUpdate>>

pageVars == <<state, stateOp, stateSteps>>

coordinatorVars == <<entities, lastStart, lastProcessed>>

progressVars == <<subscribers>>

streamVars == <<streams>>

extraVars == <<viewVars, pageVars, coordinatorVars, progressVars, streamVars>>

baseVars == <<clientVars, jobs, statsVars, settingsVars, validationVars>>

vars == <<baseVars, extraVars>>

\* The object and its environment as one record, so that a method is an
\* operator from record to record and nested calls compose.
This ==
  [enrichmentBusy |-> enrichmentBusy, eventSource |-> eventSource,
   pendingAutoEnrich |-> pendingAutoEnrich,
   discoveryLoopActive |-> discoveryLoopActive,
   discoveryLoopStopping |-> discoveryLoopStopping,
   discoveryLoopStats |-> discoveryLoopStats,
   discoveryLoopCompletionPayload |-> discoveryLoopCompletionPayload,
   finalizingDiscoveryLoop |-> finalizingDiscoveryLoop,
   discoverySettings |-> discoverySettings,
   loop |-> loop, run |-> run, manual |-> manual, doneH |-> doneH,
   notifyInFlight |-> notifyInFlight, retryTimers |-> retryTimers,
   discoveriesStarted |-> discoveriesStarted, jobsStarted |-> jobsStarted,
   stopNotifications |-> stopNotifications,
   loopInstances |-> loopInstances,
   discoverSettingsOpen |-> discoverSettingsOpen,
   notifyFailures |-> notifyFailures, lastRetryDelay |-> lastRetryDelay]

Assign(t) ==
  /\ t.discoveriesStarted <= MaxDiscoveries
  /\ t.jobsStarted <= MaxJobs
  /\ t.notifyFailures <= MaxNotifyFailures
  /\ enrichmentBusy' = t.enrichmentBusy
  /\ eventSource' = t.eventSource
  /\ pendingAutoEnrich' = t.pendingAutoEnrich
  /\ discoveryLoopActive' = t.discoveryLoopActive
  /\ discoveryLoopStopping' = t.discoveryLoopStopping
  /\ discoveryLoopStats' = t.discoveryLoopStats
  /\ discoveryLoopCompletionPayload' = t.discoveryLoopCompletionPayload
  /\ finalizingDiscoveryLoop' = t.finalizingDiscoveryLoop
  /\ discoverySettings' = t.discoverySettings
  /\ loop' = t.loop
  /\ run' = t.run
  /\ manual' = t.manual
  /\ doneH' = t.doneH
  /\ notifyInFlight' = t.notifyInFlight
  /\ retryTimers' = t.retryTimers
  /\ discoveriesStarted' = t.discoveriesStarted
  /\ jobsStarted' = t.jobsStarted
  /\ stopNotifications' = t.stopNotifications
  /\ loopInstances' = t.loopInstances
  /\ discoverSettingsOpen' = t.discoverSettingsOpen
  /\ notifyFailures' = t.notifyFailures
  /\ lastRetryDelay' = t.lastRetryDelay

Becomes(t) ==
  /\ Assign(t)
  /\ jobs' = jobs
  /\ UNCHANGED <<statsVars, settingsVars, validationVars, extraVars>>

defaultDiscoverySettingsState ==
  [hasKeywords |-> TRUE, autoEnrichEnabled |-> FALSE, enrichLimit |-> Null]

IdleTask == [pc |-> "idle", found |-> 0, limit |-> Null]

\* -------------------------------------------------- settings persistence
\* Stored values as JSON.parse hands them over.  Numbers are counted in
\* 1/Unit; a number field is absent, null, not a number ("junk": a blank or
\* unparsable string, or another type) or a number or numeric string.
RawAbsent == [kind |-> "absent"]
RawNull == [kind |-> "null"]
RawJunk == [kind |-> "junk"]
RawNum(x) == [kind |-> "num", val |-> x]

Floor(x) == (x \div Unit) * Unit
Max(a, b) == IF a >= b THEN a ELSE b

DefaultKeywordPieces == <<"crypto", "bitcoin">>

\* parseDiscoveryKeywords: split at commas and newlines, trim, drop blanks.
parseDiscoveryKeywords(pieces) == SelectSeq(pieces, LAMBDA w : w # "")

\* defaultDiscoverySettingsState with every persisted field.
DefaultSettings ==
  [keywordsText |-> DefaultKeywordPieces,
   keywords |-> parseDiscoveryKeywords(DefaultKeywordPieces),
   perKeyword |-> 5 * Unit,
   lastUploadMaxAgeDays |-> Null,
   enrichLimit |-> Null,
   autoEnrichEnabled |-> FALSE,
   autoEnrichMode |-> "email_only",
   runUntilStopped |-> FALSE]

\* lastUploadMaxAgeDays and enrichLimit: Math.floor of a number or numeric
\* string greater than 0, else null.
PositiveOrNone(raw) ==
  IF raw.kind = "num" /\ raw.val > 0 THEN Floor(raw.val) ELSE Null

\* perKeyword: Number(raw) not a number or <= 0 gives the default, else
\* Math.max(1, Math.floor(.)); an absent field was merged from the defaults.
NormalPerKeyword(raw) ==
  IF raw.kind = "num" /\ raw.val > 0 THEN Max(Unit, Floor(raw.val))
  ELSE DefaultSettings.perKeyword

\* keywordsText: a stored string as it is, else the stored keywords array
\* joined, else (and for an absent field) the default text.
NormalKeywordsText(raw) ==
  IF raw.kind \in {"text", "array"} THEN raw.pieces
  ELSE DefaultSettings.keywordsText

\* normalizeDiscoverySettings({...defaults, ...raw}).
normalizeDiscoverySettings(raw) ==
  LET keywordsText == NormalKeywordsText(raw.keywordsText) IN
  [keywordsText |-> keywordsText,
   keywords |-> parseDiscoveryKeywords(keywordsText),
   perKeyword |-> NormalPerKeyword(raw.perKeyword),
   lastUploadMaxAgeDays |-> PositiveOrNone(raw.lastUploadMaxAgeDays),
   enrichLimit |-> PositiveOrNone(raw.enrichLimit),
   autoEnrichEnabled |-> raw.autoEnrichEnabled = "true",
   autoEnrichMode |-> IF raw.autoEnrichMode = "full" THEN "full"
                      ELSE "email_only",
   runUntilStopped |-> raw.runUntilStopped = "true"]

Absent == [stored |-> "absent"]
Unparsable == [stored |-> "unparsable"]

\* loadDiscoverySettings: the defaults when nothing is stored or the item
\* does not parse, else the normalized item.
loadDiscoverySettings(item) ==
  IF item = Absent \/ item = Unparsable THEN DefaultSettings
  ELSE normalizeDiscoverySettings(item)

\* JSON.stringify(this.discoverySettings) as JSON.parse reads it back.
Stringify(st) ==
  [keywordsText |-> [kind |-> "text", pieces |-> st.keywordsText],
   perKeyword |-> RawNum(st.perKeyword),
   lastUploadMaxAgeDays |-> IF st.lastUploadMaxAgeDays = Null THEN RawNull
                            ELSE RawNum(st.lastUploadMaxAgeDays),
   enrichLimit |-> IF st.enrichLimit = Null THEN RawNull
                   ELSE RawNum(st.enrichLimit),
   autoEnrichEnabled |-> IF st.autoEnrichEnabled THEN "true" ELSE "false",
   autoEnrichMode |-> st.autoEnrichMode,
   runUntilStopped |-> IF st.runUntilStopped THEN "true" ELSE "false"]

\* ------------------------------------------------------------ table view
\* this.tables and the 'channel' stream events that patch it.  A row keeps
\* the fields that stand for the ways applyChannelUpdate copies a field:
\* status (copied if truthy), status_reason (copied if the key is present,
\* an empty value as null) and emails (copied if present, through mapEmails).
Categories == {"active", "archived", "blacklisted"}
Fields == {"status", "statusReason", "emails"}

createTableState == [rows |-> <<>>, total |-> 0, page |-> 0, limit |-> TableLimit]

\* Rows as fetchChannels returns them: channel 1 in either of two states,
\* channel 2 as a bystander.
LoadedRows ==
  {[channel_id |-> 1, status |-> "error", status_reason |-> "timeout",
    emails |-> NoText],
   [channel_id |-> 1, status |-> "completed", status_reason |-> NoText,
    emails |-> "a@x"],
   [channel_id |-> 2, status |-> "new", status_reason |-> NoText,
    emails |-> NoText]}

LoadedPages ==
  {items \in UNION {[1..n -> LoadedRows] : n \in 0..MaxViewRows} :
     \A i, j \in 1..Len(items) :
       items[i].channel_id = items[j].channel_id => i = j}

\* A 'channel' payload: the keys it carries and their values; a key that is
\* not carried has a fixed value here, which nothing reads.
NoUpdate ==
  [channelId |-> 0, carries |-> {}, status |-> NoText,
   statusReason |-> NoText, emails |-> <<>>]

Updates ==
  {u \in [channelId : {0, 1, MaxViewRows + 1}, carries : SUBSET Fields,
          status : {NoText, "completed", "error"},
          statusReason : {NoText, "timeout"},
          emails : {<<>>, <<"a@x">>}] :
     /\ "status" \notin u.carries => u.status = NoText
     /\ "statusReason" \notin u.carries => u.statusReason = NoText
     /\ "emails" \notin u.carries => u.emails = <<>>}

\* loadTable after `await fetchChannels`: a page beyond the last one is
\* loaded again as the last page, then rows and total are replaced.
loadTable(ts, category, page, items, total) ==
  LET limit == ts[category].limit
      maxPage == IF total > 0
                 THEN Max(0, ((total + limit - 1) \div limit) - 1) ELSE 0
      newPage == IF page > maxPage THEN Max(0, maxPage) ELSE page
  IN [ts EXCEPT ![category] =
        [@ EXCEPT !.page = newPage, !.rows = items, !.total = total]]

mapEmails(value) == IF value = <<>> THEN NoText ELSE value[1]

\* findIndex: the first row with the channel id, 0 for -1.
findIndex(rows, channelId) ==
  IF \E i \in 1..Len(rows) : rows[i].channel_id = channelId
  THEN CHOOSE i \in 1..Len(rows) :
         /\ rows[i].channel_id = channelId
         /\ \A j \in 1..(i - 1) : rows[j].channel_id # channelId
  ELSE 0

\* Variant that takes a payload without a status reason for an empty one.
patchRow_ReasonDefaultsToEmpty(current, update) ==
  [current EXCEPT
     !.status = IF "status" \in update.carries /\ update.status # NoText
                THEN update.status ELSE @,
     !.status_reason = update.statusReason,
     !.emails = IF "emails" \in update.carries
                THEN mapEmails(update.emails) ELSE @]

patchRow(current, update) ==
  [current EXCEPT
     !.status = IF "status" \in update.carries /\ update.status # NoText
                THEN update.status ELSE @,
     !.status_reason = IF "statusReason" \in update.carries
                       THEN update.statusReason ELSE @,
     !.emails = IF "emails" \in update.carries
                THEN mapEmails(update.emails) ELSE @]

applyChannelUpdate(ts, update) ==
  IF update.channelId = 0 THEN ts
  ELSE [category \in Categories |->
          LET table == ts[category]
              index == findIndex(table.rows, update.channelId)
          IN IF index = 0 THEN table
             ELSE [table EXCEPT
                     !.rows = [@ EXCEPT ![index] = patchRow(@, update)]]]

\* --------------------------------------------------- older page script
\* The table of the older page script (src/unnamed/part_001, second script):
\* state.rows maps a channel id to its item, which has an archived flag.
ChannelIds == 1..MaxViewRows
NoItem == [present |-> FALSE]

Item(status, reason, archived) ==
  [present |-> TRUE, status |-> status, status_reason |-> reason,
   archived |-> archived]

LoadedItems ==
  {Item("new", NoText, FALSE), Item("error", "timeout", FALSE),
   Item("completed", NoText, TRUE)}

StreamUpdates ==
  {u \in [channelId : {0, 1, MaxViewRows + 1}, mode : {"full", "email_only"},
          carries : SUBSET {"status", "statusReason", "archived"},
          status : {NoText, "completed"}, statusReason : {NoText},
          archived : BOOLEAN] :
     /\ "status" \notin u.carries => u.status = NoText
     /\ "archived" \notin u.carries => u.archived = FALSE}

\* renderTable(items) after loadChannels: the rows are replaced.
renderTable(st, items, total) ==
  [st EXCEPT !.rows = items, !.total = total]

updateChannelRowFromStream(st, update) ==
  IF update.channelId = 0 THEN st
  ELSE IF update.channelId \notin ChannelIds THEN st
  ELSE IF ~st.rows[update.channelId].present THEN st
  ELSE
    LET isEmailOnly == update.mode = "email_only"
        item == st.rows[update.channelId]
    IN [st EXCEPT !.rows[update.channelId] =
          [item EXCEPT
             !.status = IF ~isEmailOnly /\ "status" \in update.carries
                           /\ update.status # NoText
                        THEN update.status ELSE @,
             !.status_reason = IF ~isEmailOnly
                                  /\ "statusReason" \in update.carries
                               THEN update.statusReason ELSE @,
             !.archived = IF "archived" \in update.carries
                          THEN update.archived ELSE @]]

markChannelArchived(st, channelId) ==
  IF ~st.rows[channelId].present THEN st
  ELSE IF ~st.includeArchived
  THEN [st EXCEPT !.rows[channelId] = NoItem,
                  !.total = Max(0, st.total - 1)]
  ELSE [st EXCEPT !.rows[channelId].archived = TRUE]

Init ==
  /\ enrichmentBusy = FALSE
  /\ eventSource = NoJob
  /\ pendingAutoEnrich = 0
  /\ discoveryLoopActive = FALSE
  /\ discoveryLoopStopping = FALSE
  /\ discoveryLoopStats = [runs |-> 0, found |-> 0]
  /\ discoveryLoopCompletionPayload = NoPayload
  /\ finalizingDiscoveryLoop = FALSE
  /\ discoverySettings = defaultDiscoverySettingsState
  /\ loop = IdleTask
  /\ run = IdleTask
  /\ manual = IdleTask
  /\ doneH = EmptyBag
  /\ notifyInFlight = EmptyBag
  /\ retryTimers = 0
  /\ discoveriesStarted = 0
  /\ jobsStarted = 0
  /\ stopNotifications = 0
  /\ loopInstances = 0
  /\ discoverSettingsOpen = FALSE
  /\ notifyFailures = 0
  /\ lastRetryDelay = 0
  /\ jobs = <<>>
  /\ statsPromise = FALSE
  /\ lastLoopCompletionVersion = Null
  /\ fetchStatsInFlight = 0
  /\ statsRefreshInFlight = 0
  /\ statsCalls = 0
  /\ lastStatsOutcome = "none"
  /\ refreshed = [v \in 1..MaxVersion |-> 0]
  /\ notified = [v \in 1..MaxVersion |-> 0]
  /\ aggregator = [running |-> FALSE, last_completed_at |-> FALSE,
                   version |-> 0, active |-> FALSE]
  /\ localStorage = Absent
  /\ fullSettings = DefaultSettings
  /\ streamTotal = Null
  /\ invalidLimitCalls = 0
  /\ emptyKeywordSubmits = 0
  /\ tables = [category \in Categories |-> createTableState]
  /\ tableLoads = 0
  /\ channelEvents = 0
  /\ lastUpdate = NoUpdate
  /\ state = [rows |-> [channelId \in ChannelIds |-> NoItem], total |-> 0,
              includeArchived |-> FALSE]
  /\ stateOp = "none"
  /\ stateSteps = 0
  /\ entities = [entityId \in 1..MaxEntities |->
                   [category |-> "active", status |-> "new",
                    status_reason |-> NoText]]
  /\ lastStart = [calls |-> 0]
  /\ lastProcessed = [steps |-> 0, moves |-> 0]
  /\ subscribers = <<>>
  /\ streams = <<>>

\* ------------------------------------------------- loop-completion notify
\* Variant without the enrichment-busy guard.
tryFinalizeDiscoveryLoop_NoBusyGuard(t) ==
  IF t.discoveryLoopCompletionPayload = NoPayload THEN t
  ELSE IF t.discoveryLoopActive \/ t.pendingAutoEnrich > 0 THEN t
  ELSE IF t.finalizingDiscoveryLoop THEN t
  ELSE [t EXCEPT !.finalizingDiscoveryLoop = TRUE,
                 !.notifyInFlight =
                    @ (+) SetToBag({t.discoveryLoopCompletionPayload})]

\* tryFinalizeDiscoveryLoop up to its await: the guards, then the request.
tryFinalizeDiscoveryLoop(t) ==
  IF t.discoveryLoopCompletionPayload = NoPayload THEN t
  ELSE IF t.discoveryLoopActive \/ t.enrichmentBusy \/ t.pendingAutoEnrich > 0
  THEN t
  ELSE IF t.finalizingDiscoveryLoop THEN t
  ELSE [t EXCEPT !.finalizingDiscoveryLoop = TRUE,
                 !.notifyInFlight =
                    @ (+) SetToBag({t.discoveryLoopCompletionPayload})]

\* tryFinalizeDiscoveryLoop after its await: success clears the payload, a
\* failure arms the 3000 ms retry timer; finally clears the in-progress flag.
\* Variant whose failure branch arms no retry timer.
tryFinalizeDiscoveryLoopReturn_NoRetry(t, p, ok) ==
  LET r == [t EXCEPT !.notifyInFlight = @ (-) SetToBag({p})] IN
  IF ok
  THEN [r EXCEPT !.discoveryLoopCompletionPayload = NoPayload,
                 !.finalizingDiscoveryLoop = FALSE,
                 !.notifyFailures = 0, !.lastRetryDelay = 0]
  ELSE [r EXCEPT !.finalizingDiscoveryLoop = FALSE,
                 !.notifyFailures = @ + 1]

tryFinalizeDiscoveryLoopReturn(t, p, ok) ==
  LET r == [t EXCEPT !.notifyInFlight = @ (-) SetToBag({p})] IN
  IF ok
  THEN [r EXCEPT !.discoveryLoopCompletionPayload = NoPayload,
                 !.finalizingDiscoveryLoop = FALSE,
                 !.notifyFailures = 0, !.lastRetryDelay = 0]
  ELSE [r EXCEPT !.retryTimers = @ + 1,
                 !.finalizingDiscoveryLoop = FALSE,
                 !.notifyFailures = @ + 1,
                 !.lastRetryDelay = RetryDelayMs]

queueDiscoveryLoopCompletion(t, payload) ==
  tryFinalizeDiscoveryLoop(
    [t EXCEPT !.discoveryLoopCompletionPayload = payload,
              !.notifyFailures = 0, !.lastRetryDelay = 0])

\* ------------------------------------------------------------- enrichment
\* Result of a call that may leave a startEnrichment request in flight.
Call(t, sent, limit) == [t |-> t, sent |-> sent, limit |-> limit]

\* Variant without the `if (this.enrichmentBusy) return` guard.
handleEnrich_NoBusyGuard(t, limitOverride, autoTriggered) ==
  LET limitValue == IF limitOverride # Null THEN limitOverride
                    ELSE t.discoverySettings.enrichLimit
  IN IF limitValue # Null /\ (limitValue = NaN \/ limitValue <= 0)
     THEN Call(t, FALSE, Null)
     ELSE Call([t EXCEPT !.enrichmentBusy = TRUE], TRUE, limitValue)

\* Variant that marks the client busy before it checks the limit.
handleEnrich_BusyBeforeLimitCheck(t, limitOverride, autoTriggered) ==
  IF t.enrichmentBusy THEN Call(t, FALSE, Null)
  ELSE
    LET limitValue == IF limitOverride # Null THEN limitOverride
                      ELSE t.discoverySettings.enrichLimit
        u == [t EXCEPT !.enrichmentBusy = TRUE]
    IN IF limitValue # Null /\ (limitValue = NaN \/ limitValue <= 0)
       THEN Call(u, FALSE, Null)
       ELSE Call(u, TRUE, limitValue)

\* handleEnrich up to `await startEnrichment`.
handleEnrich(t, limitOverride, autoTriggered) ==
  IF t.enrichmentBusy THEN Call(t, FALSE, Null)
  ELSE
    LET limitValue == IF limitOverride # Null THEN limitOverride
                      ELSE t.discoverySettings.enrichLimit
    IN IF limitValue # Null /\ (limitValue = NaN \/ limitValue <= 0)
       THEN Call(t, FALSE, Null)
       ELSE Call([t EXCEPT !.enrichmentBusy = TRUE], TRUE, limitValue)

openEventSource(t, jobId) ==
  [t EXCEPT !.eventSource = jobId]

\* Variant whose catch block does not re-queue an auto-triggered limit.
handleEnrichReturn_LimitLost(t, ok, limitValue, autoTriggered) ==
  IF ok
  THEN [openEventSource(t, Open) EXCEPT !.jobsStarted = @ + 1]
  ELSE [t EXCEPT !.enrichmentBusy = FALSE]

\* Variant whose catch block re-queues the limit but leaves the busy flag set.
handleEnrichReturn_BusyKept(t, ok, limitValue, autoTriggered) ==
  IF ok
  THEN [openEventSource(t, Open) EXCEPT !.jobsStarted = @ + 1]
  ELSE [t EXCEPT !.pendingAutoEnrich =
                    IF autoTriggered /\ limitValue # Null /\ limitValue > 0
                    THEN @ + limitValue ELSE @]

\* handleEnrich after `await startEnrichment`: the stream is opened, or the
\* catch block restores the state and re-queues an auto-triggered limit.
handleEnrichReturn(t, ok, limitValue, autoTriggered) ==
  IF ok
  THEN [openEventSource(t, Open) EXCEPT !.jobsStarted = @ + 1]
  ELSE [t EXCEPT !.enrichmentBusy = FALSE,
                 !.pendingAutoEnrich =
                    IF autoTriggered /\ limitValue # Null /\ limitValue > 0
                    THEN @ + limitValue ELSE @]

isAutoEnrichEnabled(t) == t.discoverySettings.autoEnrichEnabled

\* Variant that drops a request made while a job is busy instead of queueing.
triggerAutoEnrich_DropsWhenBusy(t, newChannelsCount) ==
  LET count == newChannelsCount IN
  IF count <= 0 THEN Call(t, FALSE, Null)
  ELSE IF ~isAutoEnrichEnabled(t)
  THEN Call([t EXCEPT !.pendingAutoEnrich = 0], FALSE, Null)
  ELSE IF t.enrichmentBusy THEN Call(t, FALSE, Null)
  ELSE handleEnrich(t, count, TRUE)

triggerAutoEnrich(t, newChannelsCount) ==
  LET count == newChannelsCount IN
  IF count <= 0 THEN Call(t, FALSE, Null)
  ELSE IF ~isAutoEnrichEnabled(t)
  THEN Call([t EXCEPT !.pendingAutoEnrich = 0], FALSE, Null)
  ELSE IF t.enrichmentBusy
  THEN Call([t EXCEPT !.pendingAutoEnrich = @ + count], FALSE, Null)
  ELSE handleEnrich(t, count, TRUE)

processPendingAutoEnrich(t) ==
  IF t.pendingAutoEnrich <= 0
  THEN Call([t EXCEPT !.pendingAutoEnrich = 0], FALSE, Null)
  ELSE IF ~isAutoEnrichEnabled(t)
  THEN Call([t EXCEPT !.pendingAutoEnrich = 0], FALSE, Null)
  ELSE triggerAutoEnrich([t EXCEPT !.pendingAutoEnrich = 0],
                         t.pendingAutoEnrich)

\* --------------------------------------------------------- discovery loop
\* Variant whose completion payload forgets the counts when the loop failed.
loopFinally_ErrorDropsCounts(t, loopError) ==
  LET stopRequested == t.discoveryLoopStopping
      completionReason == IF loopError THEN "error"
                          ELSE IF stopRequested THEN "stopped"
                          ELSE "completed"
      r == [t EXCEPT !.discoveryLoopStopping = FALSE,
                     !.discoveryLoopActive = FALSE,
                     !.loop = IdleTask,
                     !.loopInstances = @ - 1]
  IN queueDiscoveryLoopCompletion(r,
       [runs |-> IF loopError THEN 0 ELSE t.discoveryLoopStats.runs,
        discovered |-> IF loopError THEN 0 ELSE t.discoveryLoopStats.found,
        reason |-> completionReason, error |-> loopError])

\* Variant whose completion reason prefers the stop request to the error.
loopFinally_StopWins(t, loopError) ==
  LET stopRequested == t.discoveryLoopStopping
      completionReason == IF stopRequested THEN "stopped"
                          ELSE IF loopError THEN "error"
                          ELSE "completed"
      r == [t EXCEPT !.discoveryLoopStopping = FALSE,
                     !.discoveryLoopActive = FALSE,
                     !.loop = IdleTask,
                     !.loopInstances = @ - 1]
  IN queueDiscoveryLoopCompletion(r,
       [runs |-> t.discoveryLoopStats.runs,
        discovered |-> t.discoveryLoopStats.found,
        reason |-> completionReason, error |-> loopError])

\* The finally block of startDiscoveryLoop.
loopFinally(t, loopError) ==
  LET stopRequested == t.discoveryLoopStopping
      completionReason == IF loopError THEN "error"
                          ELSE IF stopRequested THEN "stopped"
                          ELSE "completed"
      r == [t EXCEPT !.discoveryLoopStopping = FALSE,
                     !.discoveryLoopActive = FALSE,
                     !.loop = IdleTask,
                     !.loopInstances = @ - 1]
  IN queueDiscoveryLoopCompletion(r,
       [runs |-> t.discoveryLoopStats.runs,
        discovered |-> t.discoveryLoopStats.found,
        reason |-> completionReason, error |-> loopError])

\* Variant whose while condition ignores the stop request.
loopWhile_IgnoresStop(t) ==
  [t EXCEPT !.loop = [pc |-> "run", found |-> 0, limit |-> Null]]

\* Head of the while loop: leave when a stop was requested, else issue the
\* discovery request of the next run.
loopWhile(t) ==
  IF t.discoveryLoopStopping THEN loopFinally(t, FALSE)
  ELSE [t EXCEPT !.loop = [pc |-> "run", found |-> 0, limit |-> Null]]

\* Variant in which a pending stop abandons the run that just returned.
loopCountRun_StopAbandonsRun(t) ==
  IF t.discoveryLoopStopping THEN loopFinally(t, FALSE)
  ELSE [t EXCEPT !.discoveryLoopStats =
                    [runs |-> @.runs + 1, found |-> @.found + t.loop.found],
                 !.loop = [pc |-> "progress", found |-> 0, limit |-> Null]]

\* The loop body after performDiscoveryRun returned a result: count the run
\* and send the progress notification.
loopCountRun(t) ==
  [t EXCEPT !.discoveryLoopStats =
               [runs |-> @.runs + 1, found |-> @.found + t.loop.found],
            !.loop = [pc |-> "progress", found |-> 0, limit |-> Null]]

Task(pc, found, limit) == [pc |-> pc, found |-> found, limit |-> limit]

\* Variant that starts a loop without resetting the counters.
startDiscoveryLoop_KeepsCounters(t) ==
  IF t.discoveryLoopActive THEN t
  ELSE IF ~t.discoverySettings.hasKeywords THEN t
  ELSE [t EXCEPT !.discoveryLoopStopping = FALSE,
                 !.discoveryLoopCompletionPayload = NoPayload,
                 !.finalizingDiscoveryLoop = FALSE,
                 !.discoveryLoopActive = TRUE,
                 !.loop = Task("notifyStart", 0, Null),
                 !.stopNotifications = 0,
                 !.discoveriesStarted = @ + 1,
                 !.loopInstances = @ + 1]

\* Variant without the `if (this.discoveryLoopActive) return` guard.
startDiscoveryLoop_NoActiveGuard(t) ==
  IF ~t.discoverySettings.hasKeywords THEN t
  ELSE [t EXCEPT !.discoveryLoopStats = [runs |-> 0, found |-> 0],
                 !.discoveryLoopStopping = FALSE,
                 !.discoveryLoopCompletionPayload = NoPayload,
                 !.finalizingDiscoveryLoop = FALSE,
                 !.discoveryLoopActive = TRUE,
                 !.loop = Task("notifyStart", 0, Null),
                 !.stopNotifications = 0,
                 !.discoveriesStarted = @ + 1,
                 !.loopInstances = @ + 1]

\* startDiscoveryLoop up to `await notifyDiscoveryLoopStart`.
startDiscoveryLoop(t) ==
  IF t.discoveryLoopActive THEN t
  ELSE IF ~t.discoverySettings.hasKeywords THEN t
  ELSE [t EXCEPT !.discoveryLoopStats = [runs |-> 0, found |-> 0],
                 !.discoveryLoopStopping = FALSE,
                 !.discoveryLoopCompletionPayload = NoPayload,
                 !.finalizingDiscoveryLoop = FALSE,
                 !.discoveryLoopActive = TRUE,
                 !.loop = Task("notifyStart", 0, Null),
                 !.stopNotifications = 0,
                 !.discoveriesStarted = @ + 1,
                 !.loopInstances = @ + 1]

\* Variant that sends the stop notification without setting the flag.
stopDiscoveryLoop_FlagNotSet(t) ==
  IF ~t.discoveryLoopActive \/ t.discoveryLoopStopping THEN t
  ELSE [t EXCEPT !.stopNotifications = @ + 1]

\* Variant that does not check that a loop is active.
stopDiscoveryLoop_NoActiveGuard(t) ==
  IF t.discoveryLoopStopping THEN t
  ELSE [t EXCEPT !.discoveryLoopStopping = TRUE,
                 !.stopNotifications = @ + 1]

\* Variant that only checks that a loop is active.
stopDiscoveryLoop_NoStoppingGuard(t) ==
  IF ~t.discoveryLoopActive THEN t
  ELSE [t EXCEPT !.discoveryLoopStopping = TRUE,
                 !.stopNotifications = @ + 1]

\* stopDiscoveryLoop up to `await notifyDiscoveryLoopStop`; nothing follows
\* the await.
stopDiscoveryLoop(t) ==
  IF ~t.discoveryLoopActive \/ t.discoveryLoopStopping THEN t
  ELSE [t EXCEPT !.discoveryLoopStopping = TRUE,
                 !.stopNotifications = @ + 1]

setDiscoverySettings(t, settings) ==
  [t EXCEPT !.discoverySettings = settings,
            !.pendingAutoEnrich = IF settings.autoEnrichEnabled THEN @ ELSE 0]

\* openDiscoverSettings: refused with a notice while the loop is running.
openDiscoverSettings(t) ==
  IF t.discoveryLoopActive THEN t
  ELSE [t EXCEPT !.discoverSettingsOpen = TRUE]

\* Contents of the settings dialog when it is submitted: whether the keyword
\* box parses to at least one keyword, the enrichment-limit box (Null when
\* blank, else the number typed), and the two check boxes.
EnrichLimits == {Null, 0}
DialogSettings ==
  [hasKeywords : BOOLEAN, autoEnrichEnabled : BOOLEAN,
   enrichLimit : EnrichLimits, runUntilStopped : BOOLEAN]

NoSettings == [rejected |-> TRUE]

\* Variant that accepts an empty keyword list and any limit.
collectDiscoverySettingsFromDialog_NoValidation(form) ==
  [hasKeywords |-> form.hasKeywords,
   autoEnrichEnabled |-> form.autoEnrichEnabled,
   enrichLimit |-> form.enrichLimit]

\* collectDiscoverySettingsFromDialog: null for an empty keyword list or a
\* limit that is not a positive number.
collectDiscoverySettingsFromDialog(form) ==
  IF ~form.hasKeywords THEN NoSettings
  ELSE IF form.enrichLimit # Null
          /\ (form.enrichLimit = NaN \/ form.enrichLimit <= 0) THEN NoSettings
  ELSE [hasKeywords |-> form.hasKeywords,
        autoEnrichEnabled |-> form.autoEnrichEnabled,
        enrichLimit |-> form.enrichLimit]

\* performDiscoveryRun of a one-shot run up to `await discoverChannels`.
performDiscoveryRun(t) ==
  [t EXCEPT !.run = Task("run", 0, Null), !.discoveriesStarted = @ + 1]

\* Variant without the `if (this.discoveryLoopActive) return` guard.
handleDiscoverSettingsSubmit_NoActiveGuard(t, form) ==
  LET settings == collectDiscoverySettingsFromDialog(form) IN
  IF settings = NoSettings THEN t
  ELSE LET u == [setDiscoverySettings(t, settings)
                   EXCEPT !.discoverSettingsOpen = FALSE] IN
       IF ~u.discoverySettings.hasKeywords THEN u
       ELSE IF form.runUntilStopped THEN startDiscoveryLoop(u)
       ELSE performDiscoveryRun(u)

\* handleDiscoverSettingsSubmit up to the first await of the run or loop it
\* starts.
handleDiscoverSettingsSubmit(t, form) ==
  IF t.discoveryLoopActive THEN t
  ELSE
    LET settings == collectDiscoverySettingsFromDialog(form) IN
    IF settings = NoSettings THEN t
    ELSE LET u == [setDiscoverySettings(t, settings)
                     EXCEPT !.discoverSettingsOpen = FALSE] IN
         IF ~u.discoverySettings.hasKeywords THEN u
         ELSE IF form.runUntilStopped THEN startDiscoveryLoop(u)
         ELSE performDiscoveryRun(u)

\* ---------------------------------------------------------------- actions
StartDiscoveryLoop ==
  Becomes(startDiscoveryLoop(This))

\* Click on the discover button.
OpenDiscoverSettings ==
  Becomes(openDiscoverSettings(This))

\* The settings form is submitted.  A one-shot run is modelled one at a time.
HandleDiscoverSettingsSubmit ==
  \E form \in DialogSettings :
    /\ form.runUntilStopped \/ run.pc = "idle"
    /\ Becomes(handleDiscoverSettingsSubmit(This, form))

StopDiscoveryLoop ==
  Becomes(stopDiscoveryLoop(This))

\* notifyDiscoveryLoopStart returned (a failure is only logged).
LoopNotifyStartReturn ==
  /\ loop.pc = "notifyStart"
  /\ Becomes(loopWhile(This))

\* performDiscoveryRun of a loop run up to triggerAutoEnrich: discoverChannels
\* threw (the run fails and the loop leaves through finally), or it returned
\* `found` and loadStats and loadTable returned after it.  No field modelled
\* here is read or written between these three requests, so they are one wait.
LoopRunReturn ==
  /\ loop.pc = "run"
  /\ \/ /\ discoveryLoopStats.runs < MaxRuns
        /\ \E found \in FoundValues :
             LET c == triggerAutoEnrich(This, found) IN
             IF c.sent
             THEN Becomes([c.t EXCEPT !.loop = Task("enrich", found, c.limit)])
             ELSE Becomes(loopCountRun([c.t EXCEPT !.loop.found = found]))
     \/ Becomes(loopFinally(This, TRUE))

\* startEnrichment issued by the loop's auto-enrich returned or threw.
LoopEnrichReturn ==
  /\ loop.pc = "enrich"
  /\ \E ok \in BOOLEAN :
       Becomes(loopCountRun(handleEnrichReturn(This, ok, loop.limit, TRUE)))

\* notifyDiscoveryLoopProgress returned (a failure is only logged).
LoopProgressReturn ==
  /\ loop.pc = "progress"
  /\ IF discoveryLoopStopping
     THEN Becomes(loopFinally(This, FALSE))
     ELSE Becomes([This EXCEPT !.loop = Task("delay", 0, Null)])

\* The 2000 ms inter-run delay elapsed.
LoopDelayReturn ==
  /\ loop.pc = "delay"
  /\ Becomes(loopWhile(This))

\* One-shot performDiscoveryRun (settings submitted without run-until-stopped),
\* cut like the loop's run.
RunReturn ==
  /\ run.pc = "run"
  /\ \/ \E found \in FoundValues :
          LET c == triggerAutoEnrich(This, found) IN
          IF c.sent
          THEN Becomes([c.t EXCEPT !.run = Task("enrich", found, c.limit)])
          ELSE Becomes([c.t EXCEPT !.run = IdleTask])
     \/ Becomes([This EXCEPT !.run = IdleTask])

RunEnrichReturn ==
  /\ run.pc = "enrich"
  /\ \E ok \in BOOLEAN :
       Becomes([handleEnrichReturn(This, ok, run.limit, TRUE)
                     EXCEPT !.run = IdleTask])

\* Click on an enrich button: handleEnrich(mode) without overrides.
HandleEnrich ==
  LET c == handleEnrich(This, Null, FALSE) IN
  IF c.sent
  THEN Becomes([c.t EXCEPT !.manual = Task("enrich", 0, c.limit)])
  ELSE Becomes(c.t)

ManualEnrichReturn ==
  /\ manual.pc = "enrich"
  /\ \E ok \in BOOLEAN :
       Becomes([handleEnrichReturn(This, ok, manual.limit, FALSE)
                     EXCEPT !.manual = IdleTask])

\* onmessage with a progress event whose done flag is set, up to
\* `await this.loadStats()`.
onDone(t) ==
  [t EXCEPT !.eventSource = NoJob,
            !.enrichmentBusy = FALSE,
            !.doneH = @ (+) SetToBag({Task("refresh", 0, Null)})]

StreamDone ==
  /\ eventSource # NoJob
  /\ Becomes(onDone(This))

\* eventSource.onerror.
StreamError ==
  /\ eventSource # NoJob
  /\ Becomes([This EXCEPT !.eventSource = NoJob,
                          !.enrichmentBusy = FALSE])

\* The done handler's loadStats and loadTable returned: processPendingAutoEnrich,
\* then tryFinalizeDiscoveryLoop unless a start request is awaited first.
DoneRefreshReturn ==
  /\ BagIn(Task("refresh", 0, Null), doneH)
  /\ LET h == [This EXCEPT !.doneH = @ (-) SetToBag({Task("refresh", 0, Null)})]
         c == processPendingAutoEnrich(h)
     IN IF c.sent
        THEN Becomes([c.t EXCEPT
                        !.doneH = @ (+) SetToBag({Task("enrich", 0, c.limit)})])
        ELSE Becomes(tryFinalizeDiscoveryLoop(c.t))

\* startEnrichment issued by the done handler's processPendingAutoEnrich
\* returned or threw; tryFinalizeDiscoveryLoop follows.
DoneEnrichReturn ==
  \E h \in BagToSet(doneH), ok \in BOOLEAN :
    /\ h.pc = "enrich"
    /\ Becomes(tryFinalizeDiscoveryLoop(
         handleEnrichReturn([This EXCEPT !.doneH = @ (-) SetToBag({h})],
                            ok, h.limit, TRUE)))

\* notifyDiscoveryLoopComplete returned or threw.
NotifyReturn ==
  \E p \in BagToSet(notifyInFlight), ok \in BOOLEAN :
    Becomes(tryFinalizeDiscoveryLoopReturn(This, p, ok))

\* The retry timer armed by a failed notification fires.
RetryTimerFire ==
  /\ retryTimers > 0
  /\ Becomes(tryFinalizeDiscoveryLoop([This EXCEPT !.retryTimers = @ - 1]))

Next ==
  \/ StartDiscoveryLoop
  \/ HandleDiscoverSettingsSubmit
  \/ StopDiscoveryLoop
  \/ LoopNotifyStartReturn
  \/ LoopRunReturn
  \/ LoopEnrichReturn
  \/ LoopProgressReturn
  \/ LoopDelayReturn
  \/ RunReturn
  \/ RunEnrichReturn
  \/ HandleEnrich
  \/ ManualEnrichReturn
  \/ StreamDone
  \/ StreamError
  \/ DoneRefreshReturn
  \/ DoneEnrichReturn
  \/ NotifyReturn
  \/ RetryTimerFire

Spec == Init /\ [][Next]_vars

\* The controller together with the settings dialog.  Whether the dialog is
\* shown is read by no method, so Spec leaves the discover button out.
NextDialog ==
  \/ OpenDiscoverSettings
  \/ Next

SpecDialog == Init /\ [][NextDialog]_vars

\* The controller under the assumption that the requests the loop awaits
\* return: the start notification, a discovery request within the modelled
\* number of runs (its failure is possible but never forced), the enrichment
\* start of the loop's auto-enrich, the progress notification and the delay.
LoopRunSucceeds == LoopRunReturn /\ discoveryLoopActive'

\* The settings form is submitted with "run until stopped" ticked.
SubmitLoopForm ==
  \E form \in DialogSettings :
    /\ form.runUntilStopped
    /\ Becomes(handleDiscoverSettingsSubmit(This, form))

\* The loop and what it sets off: the one-shot run and the manual enrich
\* button are left unused.
NextLoop ==
  \/ StartDiscoveryLoop
  \/ SubmitLoopForm
  \/ StopDiscoveryLoop
  \/ LoopNotifyStartReturn
  \/ LoopRunReturn
  \/ LoopEnrichReturn
  \/ LoopProgressReturn
  \/ LoopDelayReturn
  \/ StreamDone
  \/ StreamError
  \/ DoneRefreshReturn
  \/ DoneEnrichReturn
  \/ NotifyReturn
  \/ RetryTimerFire

SpecLoopFair ==
  /\ Init /\ [][NextLoop]_vars
  /\ WF_vars(LoopNotifyStartReturn)
  /\ WF_vars(LoopRunSucceeds)
  /\ WF_vars(LoopEnrichReturn)
  /\ WF_vars(LoopProgressReturn)
  /\ WF_vars(LoopDelayReturn)

\* The settings form is submitted without "run until stopped".
SubmitRunForm ==
  \E form \in DialogSettings :
    /\ ~form.runUntilStopped
    /\ run.pc = "idle"
    /\ Becomes(handleDiscoverSettingsSubmit(This, form))

\* The enrichment stream ends: it delivers done or the connection fails.
StreamEnds == StreamDone \/ StreamError

\* Enrichment jobs started by the enrich button, by one-shot discovery runs
\* and by the done handler, with no loop running.
NextBusy ==
  \/ SubmitRunForm
  \/ RunReturn
  \/ RunEnrichReturn
  \/ HandleEnrich
  \/ ManualEnrichReturn
  \/ StreamDone
  \/ StreamError
  \/ DoneRefreshReturn
  \/ DoneEnrichReturn

\* Every start request returns and every open stream ends.
SpecBusyFair ==
  /\ Init /\ [][NextBusy]_vars
  /\ WF_vars(RunEnrichReturn)
  /\ WF_vars(ManualEnrichReturn)
  /\ WF_vars(DoneEnrichReturn)
  /\ WF_vars(StreamEnds)

\* ------------------------------------------------------------ Job Tracker
\* The server is not part of the client sources; the Job Tracker is modelled
\* from its contract (createJob, recordOutcome and the progress event).
EntityIds == 1..MaxEntities
Outcomes == {"Success", "Error", "Skipped"}

Settled(job) == job.completed + job.errored + job.skipped

\* createJob(targetIds, mode): fails on an empty target set, else allocates a
\* record with total = len(targetIds), zero counters and done = false.
createJob(js, targetIds) ==
  IF targetIds = {} THEN js
  ELSE Append(js, [targets |-> targetIds, total |-> Cardinality(targetIds),
                   completed |-> 0, errored |-> 0, skipped |-> 0,
                   done |-> FALSE, recorded |-> {}, doneEvents |-> 0])

\* Variant whose pending count leaves the skipped entities out.
recordOutcome_PendingIgnoresSkipped(js, jobId, entityId, outcome) ==
  LET job == js[jobId]
      counted == [job EXCEPT
                    !.completed = IF outcome = "Success" THEN @ + 1 ELSE @,
                    !.errored = IF outcome = "Error" THEN @ + 1 ELSE @,
                    !.skipped = IF outcome = "Skipped" THEN @ + 1 ELSE @,
                    !.recorded = @ \cup {entityId}]
      pending == counted.total - counted.completed - counted.errored
      done == pending = 0
  IN [js EXCEPT ![jobId] =
        [counted EXCEPT !.done = done,
                        !.doneEvents = IF done THEN @ + 1 ELSE @]]

\* recordOutcome(jobId, entityId, outcome): increments the matching counter
\* and emits the progress event with pending = total - completed - errored -
\* skipped and done = (pending = 0).
recordOutcome(js, jobId, entityId, outcome) ==
  LET job == js[jobId]
      counted == [job EXCEPT
                    !.completed = IF outcome = "Success" THEN @ + 1 ELSE @,
                    !.errored = IF outcome = "Error" THEN @ + 1 ELSE @,
                    !.skipped = IF outcome = "Skipped" THEN @ + 1 ELSE @,
                    !.recorded = @ \cup {entityId}]
      pending == counted.total - Settled(counted)
      done == pending = 0
  IN [js EXCEPT ![jobId] =
        [counted EXCEPT !.done = done,
                        !.doneEvents = IF done THEN @ + 1 ELSE @]]

\* ------------------------------------------------------- progress events
\* Fields of a progress message that the client has a fallback for; a stream
\* sends the same fields in every message, with or without the pending count.
StreamFields == {{"pending", "total"}, {"total"}}
Scripts == {"dashboard", "page"}

\* The progress event of a job: the counts, pending = total - completed -
\* errored - skipped and done = (pending = 0), with the fields the stream
\* sends.
progressEvent(job, jobId, carries) ==
  [jobId |-> jobId, completed |-> job.completed, errors |-> job.errored,
   skipped |-> job.skipped,
   total |-> IF "total" \in carries THEN job.total ELSE 0,
   pending |-> IF "pending" \in carries THEN job.total - Settled(job) ELSE 0,
   done |-> job.done, carries |-> carries]

\* Variant that opens the stream without the current-snapshot event.
subscribe_NoSnapshot(subs, js, jobId, script, carries) ==
  Append(subs, [jobId |-> jobId, script |-> script, carries |-> carries,
                total |-> js[jobId].total, atSubscribe |-> js[jobId],
                queue |-> <<>>, log |-> <<>>, open |-> TRUE,
                progress |-> [text |-> "queued", completed |-> 0,
                              total |-> js[jobId].total,
                              pending |-> js[jobId].total, errors |-> 0]])

\* subscribe(jobId): opens an event stream whose first event is the current
\* snapshot of the job.  The client end is the handler installed by
\* openEventSource(jobId, total) or startEnrichmentStream(jobId, total, mode).
subscribe(subs, js, jobId, script, carries) ==
  Append(subs, [jobId |-> jobId, script |-> script, carries |-> carries,
                total |-> js[jobId].total, atSubscribe |-> js[jobId],
                queue |-> <<progressEvent(js[jobId], jobId, carries)>>,
                log |-> <<>>, open |-> TRUE,
                progress |-> [text |-> "queued", completed |-> 0,
                              total |-> js[jobId].total,
                              pending |-> js[jobId].total, errors |-> 0]])

\* The event recordOutcome emits goes to every open stream of the job.
publish(subs, js, jobId) ==
  [i \in DOMAIN subs |->
     IF subs[i].jobId = jobId /\ subs[i].open
     THEN [subs[i] EXCEPT
             !.queue = Append(@, progressEvent(js[jobId], jobId,
                                               subs[i].carries))]
     ELSE subs[i]]

\* Dashboard.openEventSource, 'progress' branch: the numbers of the progress
\* line.
onProgress(payload, total) ==
  LET completed == payload.completed
      shownTotal == IF "total" \in payload.carries THEN payload.total
                    ELSE total
  IN [text |-> "progress", completed |-> completed, total |-> shownTotal,
      pending |-> IF "pending" \in payload.carries THEN payload.pending
                  ELSE Max(0, shownTotal - completed),
      errors |-> payload.errors]

\* startEnrichmentStream of the older page script, 'progress' branch.
onProgressPage(payload, progress) ==
  LET shownTotal == IF "total" \in payload.carries THEN payload.total
                    ELSE progress.total
  IN [text |-> "progress", completed |-> payload.completed,
      total |-> shownTotal,
      pending |-> IF "pending" \in payload.carries THEN payload.pending
                  ELSE Max(0, shownTotal - payload.completed
                                - payload.errors),
      errors |-> payload.errors]

\* onmessage for one progress event: show the numbers; on done close the
\* stream and clear the progress line.
onmessage(sub) ==
  LET payload == Head(sub.queue)
      shown == IF sub.script = "dashboard" THEN onProgress(payload, sub.total)
               ELSE onProgressPage(payload, sub.progress)
  IN [sub EXCEPT
        !.log = Append(@, [payload |-> payload, shown |-> shown]),
        !.queue = IF payload.done THEN <<>> ELSE Tail(@),
        !.open = ~payload.done,
        !.progress = IF payload.done
                     THEN [shown EXCEPT !.text = NoText]
                     ELSE shown]

CreateJob ==
  /\ Len(jobs) < MaxTrackedJobs
  /\ \E targetIds \in SUBSET EntityIds : jobs' = createJob(jobs, targetIds)
  /\ UNCHANGED <<clientVars, statsVars, settingsVars, validationVars, extraVars>>

\* The Coordinator reports the outcome of one target entity, once per entity.
RecordOutcome ==
  /\ \E jobId \in 1..Len(jobs) :
       \E entityId \in jobs[jobId].targets \ jobs[jobId].recorded :
         \E outcome \in Outcomes :
           /\ jobs' = recordOutcome(jobs, jobId, entityId, outcome)
           /\ subscribers' = publish(subscribers, jobs', jobId)
  /\ UNCHANGED <<clientVars, statsVars, settingsVars, validationVars,
                 viewVars, pageVars, coordinatorVars, streamVars>>

NextJobTracker ==
  \/ CreateJob
  \/ RecordOutcome

SpecJobTracker == Init /\ [][NextJobTracker]_vars

\* A client opens the event stream of a job.
Subscribe ==
  /\ Len(subscribers) < MaxSubscribers
  /\ \E jobId \in 1..Len(jobs), script \in Scripts,
        carries \in StreamFields :
       subscribers' = subscribe(subscribers, jobs, jobId, script, carries)
  /\ UNCHANGED <<baseVars, viewVars, pageVars, coordinatorVars, streamVars>>

\* The next queued event of a stream reaches its client.
Deliver ==
  /\ \E i \in DOMAIN subscribers :
       /\ subscribers[i].open
       /\ subscribers[i].queue # <<>>
       /\ subscribers' = [subscribers EXCEPT ![i] = onmessage(@)]
  /\ UNCHANGED <<baseVars, viewVars, pageVars, coordinatorVars, streamVars>>

NextProgress ==
  \/ CreateJob
  \/ RecordOutcome
  \/ Subscribe
  \/ Deliver

SpecProgress == Init /\ [][NextProgress]_vars

\* -------------------------------------------------- Enrichment Coordinator
\* The Coordinator belongs to the server, which is not part of the client
\* sources; it is modelled from its contract.  start() selects, marks and
\* creates the job in one step; each target entity is then processed once.
StartLimits == {Null, 1, MaxEntities + 1}

\* Variant that also takes entities that are being processed.
Candidates_IncludesProcessing(es, forceRun) ==
  {entityId \in EntityIds :
     /\ es[entityId].category = "active"
     /\ es[entityId].status = "completed" => forceRun}

\* Candidates of start(): active, not in flight, and not freshly completed
\* unless forceRun is set.
Candidates(es, forceRun) ==
  {entityId \in EntityIds :
     /\ es[entityId].category = "active"
     /\ es[entityId].status # "processing"
     /\ es[entityId].status = "completed" => forceRun}

\* The first `cap` entities of a set in the stable order (here: by id).
FirstOf(ids, cap) ==
  {entityId \in ids : Cardinality({other \in ids : other < entityId}) < cap}

\* Variant that marks every eligible entity, whatever the limit.
Selected_IgnoresLimit(eligible, limit) == eligible

\* Cap at the limit, or at the default upper bound.
Selected(eligible, limit) ==
  FirstOf(eligible, IF limit = Null THEN MaxEntities ELSE limit)

\* start(mode, limit, forceRun, neverReenrich): recentlyEmpty is the set the
\* never-re-enrich policy excludes (empty if the flag is not set).
start(es, js, limit, forceRun, recentlyEmpty) ==
  LET candidates == Candidates(es, forceRun)
      skipped == candidates \cap recentlyEmpty
      eligible == candidates \ skipped
      selected == Selected(eligible, limit)
      marked == [entityId \in EntityIds |->
                   IF entityId \in selected
                   THEN [es[entityId] EXCEPT !.status = "processing",
                                             !.status_reason = NoText]
                   ELSE es[entityId]]
      created == createJob(js, selected)
  IN [entities |-> marked, jobs |-> created,
      eligible |-> eligible, selected |-> selected,
      reply |-> [jobId |-> IF selected = {} THEN NoJob ELSE Len(created),
                 total |-> Cardinality(selected),
                 skipped |-> Cardinality(skipped)]]

\* Variant that records a failure without writing it to the Entity.
processEntity_ErrorNotWritten(es, js, jobId, entityId, outcome) ==
  [entities |->
     IF outcome = "Success"
     THEN [es EXCEPT ![entityId].status = "completed",
                     ![entityId].status_reason = NoText]
     ELSE es,
   jobs |-> recordOutcome(js, jobId, entityId, outcome)]

\* Variant that leaves a failed entity as it is and stops the job.
processEntity_AbortsOnError(es, js, jobId, entityId, outcome) ==
  IF outcome = "Error"
  THEN [entities |-> es,
        jobs |-> [js EXCEPT ![jobId].done = TRUE,
                            ![jobId].errored = @ + 1,
                            ![jobId].recorded = @ \cup {entityId}]]
  ELSE [entities |-> [es EXCEPT ![entityId].status = "completed",
                                ![entityId].status_reason = NoText],
        jobs |-> recordOutcome(js, jobId, entityId, outcome)]

\* Per-entity processing: the result is written to the Entity, then the
\* outcome is recorded with the Job Tracker.
processEntity(es, js, jobId, entityId, outcome) ==
  [entities |->
     [es EXCEPT ![entityId].status =
                  IF outcome = "Success" THEN "completed" ELSE "error",
                ![entityId].status_reason =
                  IF outcome = "Success" THEN NoText ELSE "timeout"],
   jobs |-> recordOutcome(js, jobId, entityId, outcome)]

\* Bulk or single category mutation (archive, blacklist, restore).
moveCategory(es, ids, category) ==
  [entityId \in EntityIds |->
     IF entityId \in ids THEN [es[entityId] EXCEPT !.category = category]
     ELSE es[entityId]]

Start ==
  /\ Len(jobs) < MaxTrackedJobs
  /\ lastStart.calls < MaxStarts
  /\ \E limit \in StartLimits, forceRun \in BOOLEAN,
        recentlyEmpty \in SUBSET EntityIds :
       LET r == start(entities, jobs, limit, forceRun, recentlyEmpty) IN
       /\ entities' = r.entities
       /\ jobs' = r.jobs
       /\ lastStart' = [calls |-> lastStart.calls + 1, limit |-> limit,
                        before |-> entities, eligible |-> r.eligible,
                        selected |-> r.selected, reply |-> r.reply]
  /\ UNCHANGED <<clientVars, statsVars, settingsVars, validationVars,
                 viewVars, pageVars, lastProcessed, progressVars,
                 streamVars>>

ProcessEntity ==
  /\ \E jobId \in 1..Len(jobs) :
       /\ ~jobs[jobId].done
       /\ \E entityId \in jobs[jobId].targets \ jobs[jobId].recorded,
             outcome \in {"Success", "Error"} :
            LET r == processEntity(entities, jobs, jobId, entityId, outcome) IN
            /\ entities' = r.entities
            /\ jobs' = r.jobs
            /\ lastProcessed' = [steps |-> lastProcessed.steps + 1,
                                 moves |-> lastProcessed.moves,
                                 jobId |-> jobId, entityId |-> entityId,
                                 outcome |-> outcome]
            /\ subscribers' = publish(subscribers, r.jobs, jobId)
  /\ UNCHANGED <<clientVars, statsVars, settingsVars, validationVars,
                 viewVars, pageVars, lastStart, streamVars>>

MoveCategory ==
  /\ lastProcessed.moves < MaxCategoryMoves
  /\ \E ids \in SUBSET EntityIds \ {{}}, category \in Categories :
       entities' = moveCategory(entities, ids, category)
  /\ lastProcessed' = [lastProcessed EXCEPT !.moves = @ + 1]
  /\ UNCHANGED <<clientVars, jobs, statsVars, settingsVars, validationVars,
                 viewVars, pageVars, lastStart, progressVars,
                 streamVars>>

NextCoordinator ==
  \/ Start
  \/ ProcessEntity
  \/ MoveCategory

SpecCoordinator == Init /\ [][NextCoordinator]_vars

\* ---------------------------------------------------------- stats polling
\* loadStats and maybeRefreshAfterLoop, with the aggregator whose status they
\* poll.  The aggregator is part of the server: it is modelled from its
\* contract, a discoveryLoop status whose version counter is bumped by every
\* completion.
StatsThis ==
  [statsPromise |-> statsPromise,
   lastLoopCompletionVersion |-> lastLoopCompletionVersion,
   fetchStatsInFlight |-> fetchStatsInFlight,
   statsRefreshInFlight |-> statsRefreshInFlight,
   statsCalls |-> statsCalls, lastStatsOutcome |-> lastStatsOutcome,
   refreshed |-> refreshed, notified |-> notified]

StatsBecomes(t) ==
  /\ t.statsCalls <= MaxStatsCalls
  /\ statsPromise' = t.statsPromise
  /\ lastLoopCompletionVersion' = t.lastLoopCompletionVersion
  /\ fetchStatsInFlight' = t.fetchStatsInFlight
  /\ statsRefreshInFlight' = t.statsRefreshInFlight
  /\ statsCalls' = t.statsCalls
  /\ lastStatsOutcome' = t.lastStatsOutcome
  /\ refreshed' = t.refreshed
  /\ notified' = t.notified
  /\ UNCHANGED <<clientVars, jobs, aggregator, settingsVars, validationVars, extraVars>>

\* Variant without the `if (this.statsPromise) return this.statsPromise` guard.
loadStats_NoPromiseGuard(t) ==
  [t EXCEPT !.statsPromise = TRUE,
            !.fetchStatsInFlight = @ + 1,
            !.statsCalls = @ + 1]

\* loadStats up to `await fetchStats()`.
loadStats(t) ==
  IF t.statsPromise THEN [t EXCEPT !.statsCalls = @ + 1]
  ELSE [t EXCEPT !.statsPromise = TRUE,
                 !.fetchStatsInFlight = @ + 1,
                 !.statsCalls = @ + 1]

\* Variant that records the reported version before the check for processing
\* channels and active jobs.
maybeRefreshAfterLoop_MarksWhileActive(t, stats) ==
  IF stats.running THEN t
  ELSE IF ~stats.last_completed_at THEN t
  ELSE IF stats.version = t.lastLoopCompletionVersion THEN t
  ELSE IF stats.active
  THEN [t EXCEPT !.lastLoopCompletionVersion = stats.version]
  ELSE [t EXCEPT !.lastLoopCompletionVersion = stats.version,
                 !.refreshed[stats.version] = @ + 1,
                 !.statsRefreshInFlight = @ + 1]

\* Variant without the comparison against lastLoopCompletionVersion.
maybeRefreshAfterLoop_NoVersionCheck(t, stats) ==
  IF stats.running THEN t
  ELSE IF ~stats.last_completed_at THEN t
  ELSE IF stats.active THEN t
  ELSE [t EXCEPT !.lastLoopCompletionVersion = stats.version,
                 !.refreshed[stats.version] = @ + 1,
                 !.statsRefreshInFlight = @ + 1]

\* maybeRefreshAfterLoop up to `await this.loadTable(...)`.
maybeRefreshAfterLoop(t, stats) ==
  IF stats.running THEN t
  ELSE IF ~stats.last_completed_at THEN t
  ELSE IF stats.active THEN t
  ELSE IF stats.version = t.lastLoopCompletionVersion THEN t
  ELSE [t EXCEPT !.lastLoopCompletionVersion = stats.version,
                 !.refreshed[stats.version] = @ + 1,
                 !.statsRefreshInFlight = @ + 1]

\* loadStats after `await fetchStats()`: the catch block on failure, else
\* maybeRefreshAfterLoop; finally clears statsPromise unless the table refresh
\* is awaited first.
loadStatsFetched(t, ok, stats) ==
  LET r == [t EXCEPT !.fetchStatsInFlight = @ - 1,
                     !.lastStatsOutcome = IF ok THEN "ok" ELSE "failed"] IN
  IF ~ok THEN [r EXCEPT !.statsPromise = FALSE]
  ELSE LET u == maybeRefreshAfterLoop(r, stats) IN
       IF u.statsRefreshInFlight > r.statsRefreshInFlight THEN u
       ELSE [u EXCEPT !.statsPromise = FALSE]

\* maybeRefreshAfterLoop after its loadTable: the notice, then loadStats'
\* finally.
loadStatsRefreshed(t) ==
  [t EXCEPT !.statsRefreshInFlight = @ - 1,
            !.notified[t.lastLoopCompletionVersion] = @ + 1,
            !.statsPromise = FALSE]

\* The 5000 ms poll timer, or any other caller of loadStats.
LoadStats ==
  StatsBecomes(loadStats(StatsThis))

FetchStatsReturn ==
  /\ fetchStatsInFlight > 0
  /\ \E ok \in BOOLEAN : StatsBecomes(loadStatsFetched(StatsThis, ok, aggregator))

StatsRefreshReturn ==
  /\ statsRefreshInFlight > 0
  /\ StatsBecomes(loadStatsRefreshed(StatsThis))

\* The server starts a loop, completes one (bumping the version counter), or
\* its enrichment activity begins or ends.
AggregatorLoopStart ==
  /\ ~aggregator.running
  /\ aggregator.version < MaxVersion
  /\ aggregator' = [aggregator EXCEPT !.running = TRUE]
  /\ UNCHANGED <<clientVars, jobs, statsPromise, lastLoopCompletionVersion,
                 fetchStatsInFlight, statsRefreshInFlight, statsCalls,
                 lastStatsOutcome, refreshed, notified, settingsVars,
                 validationVars, extraVars>>

AggregatorLoopComplete ==
  /\ aggregator.running
  /\ aggregator' = [aggregator EXCEPT !.running = FALSE,
                                      !.last_completed_at = TRUE,
                                      !.version = @ + 1]
  /\ UNCHANGED <<clientVars, jobs, statsPromise, lastLoopCompletionVersion,
                 fetchStatsInFlight, statsRefreshInFlight, statsCalls,
                 lastStatsOutcome, refreshed, notified, settingsVars,
                 validationVars, extraVars>>

AggregatorActivity ==
  /\ aggregator' = [aggregator EXCEPT !.active = ~@]
  /\ UNCHANGED <<clientVars, jobs, statsPromise, lastLoopCompletionVersion,
                 fetchStatsInFlight, statsRefreshInFlight, statsCalls,
                 lastStatsOutcome, refreshed, notified, settingsVars,
                 validationVars, extraVars>>

NextStats ==
  \/ LoadStats
  \/ FetchStatsReturn
  \/ StatsRefreshReturn
  \/ AggregatorLoopStart
  \/ AggregatorLoopComplete
  \/ AggregatorActivity

SpecStats == Init /\ [][NextStats]_vars

\* The 5000 ms poll timer of startStatsPolling, which never stops: calls are
\* counted up to MaxStatsCalls.
PollTimer ==
  LET t == loadStats(StatsThis) IN
  StatsBecomes([t EXCEPT !.statsCalls =
                           IF @ > MaxStatsCalls THEN MaxStatsCalls ELSE @])

\* fetchStats returned the aggregator's status.
FetchSucceeds == FetchStatsReturn /\ lastStatsOutcome' = "ok"

NextPolling ==
  \/ PollTimer
  \/ FetchStatsReturn
  \/ StatsRefreshReturn
  \/ AggregatorLoopStart
  \/ AggregatorLoopComplete
  \/ AggregatorActivity

\* Polls continue, the requests of repeated polls do not all fail, and the
\* table refresh of maybeRefreshAfterLoop returns.
SpecStatsFair ==
  /\ Init /\ [][NextPolling]_vars
  /\ WF_vars(PollTimer)
  /\ SF_vars(FetchSucceeds)
  /\ WF_vars(StatsRefreshReturn)

\* ------------------------------------------ settings persistence: actions
KeywordPieces ==
  UNION {[1..n -> {"a", ""}] : n \in 0..MaxKeywordPieces}

RawTexts ==
  {RawAbsent, RawJunk}
    \cup {[kind |-> "text", pieces |-> p] : p \in KeywordPieces}
    \cup {[kind |-> "array", pieces |-> <<"a", "a">>]}

RawNumbers ==
  {RawAbsent, RawNull, RawJunk} \cup {RawNum(x) : x \in {-Unit, 0, 1, MaxStoredNumber - 1}}

RawPerKeywords == {RawAbsent, RawJunk, RawNum(0), RawNum(1), RawNum(MaxStoredNumber - 1)}

\* Items another writer (an older build, another tab, the user) can have left
\* under the storage key.
StoredItems ==
  {Unparsable} \cup
  [keywordsText : RawTexts,
   perKeyword : RawPerKeywords,
   lastUploadMaxAgeDays : RawNumbers,
   enrichLimit : RawNumbers,
   autoEnrichEnabled : {"absent", "true", "false"},
   autoEnrichMode : {"absent", "full", "email_only", "other"},
   runUntilStopped : {"true", "false"}]

\* An absent field takes the default's value in {...defaults, ...parsed}.
MergeDefaults(item) ==
  IF item = Unparsable THEN item
  ELSE [item EXCEPT
          !.autoEnrichEnabled = IF @ = "absent" THEN "false" ELSE @,
          !.autoEnrichMode = IF @ = "absent" THEN "email_only" ELSE @]

ForeignStorageWrite ==
  /\ localStorage = Absent
  /\ \E item \in StoredItems : localStorage' = MergeDefaults(item)
  /\ UNCHANGED <<clientVars, jobs, statsVars, fullSettings, validationVars, extraVars>>

\* Page load: the constructor's loadDiscoverySettings.
LoadDiscoverySettings ==
  /\ fullSettings' = loadDiscoverySettings(localStorage)
  /\ UNCHANGED <<clientVars, jobs, statsVars, localStorage, validationVars, extraVars>>

\* saveDiscoverySettings: the current settings are written to the store.
SaveDiscoverySettings ==
  /\ localStorage' = Stringify(fullSettings)
  /\ UNCHANGED <<clientVars, jobs, statsVars, fullSettings, validationVars, extraVars>>

NextSettings ==
  \/ ForeignStorageWrite
  \/ LoadDiscoverySettings
  \/ SaveDiscoverySettings

SpecSettings == Init /\ [][NextSettings]_vars

\* --------------------------------------------- validation and start replies
\* One-shot runs and enrichment without the loop, with the inputs the loop
\* model fixes left open: the limit a caller passes to handleEnrich, the limit
\* typed into the dialog, and the total a start reply reports.
LimitOverrides == {Null, NaN, 0}
OneShotForms ==
  [hasKeywords : {TRUE}, autoEnrichEnabled : BOOLEAN,
   enrichLimit : {Null, NaN, 0, 1}, runUntilStopped : {FALSE}]
KeywordForms == {form \in DialogSettings : form.enrichLimit = Null}
Totals == 0..MaxTotal

InvalidLimit(limit) == limit # Null /\ (limit = NaN \/ limit <= 0)

\* A step of the controller that also counts the invalid inputs it was given.
Counts(t, invalidLimit, emptyKeywords) ==
  /\ Assign(t)
  /\ invalidLimitCalls' = invalidLimitCalls + (IF invalidLimit THEN 1 ELSE 0)
  /\ invalidLimitCalls' <= MaxInvalidCalls
  /\ emptyKeywordSubmits' =
       emptyKeywordSubmits + (IF emptyKeywords THEN 1 ELSE 0)
  /\ emptyKeywordSubmits' <= MaxInvalidCalls
  /\ UNCHANGED <<jobs, statsVars, settingsVars, streamTotal, extraVars>>

\* A step that ends with openEventSource(jobId, total), or with the catch block.
Replies(t, ok, total) ==
  /\ Assign(t)
  /\ streamTotal' = IF ok THEN total ELSE streamTotal
  /\ UNCHANGED <<jobs, statsVars, settingsVars, invalidLimitCalls,
                 emptyKeywordSubmits, extraVars>>

\* Submit of the settings dialog with the form as filled in.
SubmitForm(form) ==
  /\ form.runUntilStopped \/ run.pc = "idle"
  /\ Counts(handleDiscoverSettingsSubmit(This, form),
            InvalidLimit(form.enrichLimit), ~form.hasKeywords)

SubmitOneShotForm == \E form \in OneShotForms : SubmitForm(form)

SubmitKeywordForm == \E form \in KeywordForms : SubmitForm(form)

\* handleEnrich(mode, {limitOverride}) called from a click (no override) or
\* with a limit that is no positive number.
HandleEnrichOverrides ==
  \E limitOverride \in LimitOverrides :
    LET c == handleEnrich(This, limitOverride, FALSE)
        limitValue == IF limitOverride # Null THEN limitOverride
                      ELSE discoverySettings.enrichLimit
    IN Counts(IF c.sent THEN [c.t EXCEPT !.manual = Task("enrich", 0, c.limit)]
              ELSE c.t,
              InvalidLimit(limitValue), FALSE)

ManualEnrichReply ==
  /\ manual.pc = "enrich"
  /\ \E ok \in BOOLEAN, total \in Totals :
       Replies([handleEnrichReturn(This, ok, manual.limit, FALSE)
                  EXCEPT !.manual = IdleTask], ok, total)

RunEnrichReply ==
  /\ run.pc = "enrich"
  /\ \E ok \in BOOLEAN, total \in Totals :
       Replies([handleEnrichReturn(This, ok, run.limit, TRUE)
                  EXCEPT !.run = IdleTask], ok, total)

DoneEnrichReply ==
  \E h \in BagToSet(doneH), ok \in BOOLEAN, total \in Totals :
    /\ h.pc = "enrich"
    /\ Replies(tryFinalizeDiscoveryLoop(
         handleEnrichReturn([This EXCEPT !.doneH = @ (-) SetToBag({h})],
                            ok, h.limit, TRUE)), ok, total)

NextEnrich ==
  \/ SubmitOneShotForm
  \/ RunReturn
  \/ RunEnrichReply
  \/ HandleEnrichOverrides
  \/ ManualEnrichReply
  \/ StreamDone
  \/ StreamError
  \/ DoneRefreshReturn
  \/ DoneEnrichReply

SpecEnrich == Init /\ [][NextEnrich]_vars

\* ------------------------------------------------------ stream completion
\* The EventSource objects behind this.eventSource.  A closed EventSource
\* dispatches no further message; an open one dispatches what the server
\* sends, which may go on after the done event (an EventSource whose
\* connection ends reconnects by itself and is sent the job's state again).
MessageKinds == {"progress", "done", "error"}

\* this.eventSource, if set, is the EventSource created last.
close(ss, t) ==
  IF t.eventSource # NoJob /\ Len(ss) > 0
  THEN [ss EXCEPT ![Len(ss)].readyState = "closed"]
  ELSE ss

\* openEventSource(jobId, total): closes the stream that is open, if any, and
\* creates the new one.
newEventSource(ss, t) ==
  Append(close(ss, t), [readyState |-> "open", sent |-> 0, queue |-> <<>>,
                        handled |-> <<>>, completions |-> 0])

\* Variant of the done branch that drops the reference without close().
onmessage_done_NoClose(ss, t, id) ==
  [t |-> onDone(t),
   streams |-> [ss EXCEPT ![id].completions = @ + 1]]

\* onmessage, progress event with done set, up to `await this.loadStats()`.
onmessage_done(ss, t, id) ==
  [t |-> onDone(t),
   streams |-> [close(ss, t) EXCEPT ![id].completions = @ + 1]]

\* A step of the controller that changes the streams as well.
Streams(t, ss) ==
  /\ Assign(t)
  /\ streams' = ss
  /\ UNCHANGED <<jobs, statsVars, settingsVars, validationVars, viewVars,
                 pageVars, coordinatorVars, progressVars>>

\* startEnrichment of a click returned or threw.
ManualEnrichOpens ==
  /\ manual.pc = "enrich"
  /\ \E ok \in BOOLEAN :
       Streams([handleEnrichReturn(This, ok, manual.limit, FALSE)
                  EXCEPT !.manual = IdleTask],
               IF ok THEN newEventSource(streams, This) ELSE streams)

\* The server sends a message on a stream.
ServerSends ==
  \E id \in DOMAIN streams, kind \in MessageKinds :
    /\ streams[id].readyState = "open"
    /\ streams[id].sent < MaxStreamEvents
    /\ Streams(This, [streams EXCEPT ![id].sent = @ + 1,
                                     ![id].queue = Append(@, kind)])

\* The browser dispatches the next message of an open stream to onmessage.
StreamMessage ==
  \E id \in DOMAIN streams :
    /\ streams[id].readyState = "open"
    /\ streams[id].queue # <<>>
    /\ LET kind == Head(streams[id].queue)
           ss == [streams EXCEPT ![id].queue = Tail(@),
                                 ![id].handled = Append(@, kind)]
           r == IF kind = "done" THEN onmessage_done(ss, This, id)
                ELSE [t |-> This, streams |-> ss]
       IN Streams(r.t, r.streams)

\* Variant of onerror that clears enrichmentBusy and keeps the stream.
onerror_KeepsStream(ss, t) ==
  [t |-> [t EXCEPT !.enrichmentBusy = FALSE], streams |-> ss]

\* eventSource.onerror: close the stream, drop it, clear enrichmentBusy.
onerror(ss, t) ==
  [t |-> [t EXCEPT !.eventSource = NoJob, !.enrichmentBusy = FALSE],
   streams |-> close(ss, t)]

StreamFails ==
  \E id \in DOMAIN streams :
    /\ streams[id].readyState = "open"
    /\ LET r == onerror(streams, This) IN Streams(r.t, r.streams)

NextDone ==
  \/ HandleEnrich
  \/ ManualEnrichOpens
  \/ ServerSends
  \/ StreamMessage
  \/ StreamFails
  \/ DoneRefreshReturn

SpecDone == Init /\ [][NextDone]_vars

\* The whole controller, its submits counting the empty keyword lists.
NextSubmit ==
  \/ SubmitKeywordForm
  \/ StartDiscoveryLoop
  \/ StopDiscoveryLoop
  \/ LoopNotifyStartReturn
  \/ LoopRunReturn
  \/ LoopEnrichReturn
  \/ LoopProgressReturn
  \/ LoopDelayReturn
  \/ RunReturn
  \/ RunEnrichReturn
  \/ HandleEnrich
  \/ ManualEnrichReturn
  \/ StreamDone
  \/ StreamError
  \/ DoneRefreshReturn
  \/ DoneEnrichReturn
  \/ NotifyReturn
  \/ RetryTimerFire

SpecSubmit == Init /\ [][NextSubmit]_vars

\* ---------------------------------------------------- table view actions
\* The reply of a loadTable request for some page of some category.
LoadTableReturn ==
  /\ tableLoads < MaxTableLoads
  /\ \E category \in Categories, items \in LoadedPages, page \in 0..1,
        more \in {0, TableLimit} :
       tables' = loadTable(tables, category, page, items, Len(items) + more)
  /\ tableLoads' = tableLoads + 1
  /\ UNCHANGED <<baseVars, channelEvents, lastUpdate, pageVars, coordinatorVars, progressVars, streamVars>>

\* onmessage with a payload of type 'channel'.
ChannelEvent ==
  /\ channelEvents < MaxChannelEvents
  /\ \E update \in Updates :
       /\ tables' = applyChannelUpdate(tables, update)
       /\ lastUpdate' = update
  /\ channelEvents' = channelEvents + 1
  /\ UNCHANGED <<baseVars, tableLoads, pageVars, coordinatorVars, progressVars, streamVars>>

NextView ==
  \/ LoadTableReturn
  \/ ChannelEvent

SpecView == Init /\ [][NextView]_vars

\* ------------------------------------------- older page script: actions
StateStep(st, op) ==
  /\ stateSteps < MaxStateSteps
  /\ state' = st
  /\ stateOp' = op
  /\ stateSteps' = stateSteps + 1
  /\ UNCHANGED <<baseVars, viewVars, coordinatorVars, progressVars, streamVars>>

\* loadChannels returned: the hide-archived toggle decides whether archived
\* channels are among the items.
LoadChannelsReturn ==
  \E includeArchived \in BOOLEAN,
     items \in [ChannelIds -> LoadedItems \cup {NoItem}] :
    /\ \A channelId \in ChannelIds :
         items[channelId].present /\ items[channelId].archived
           => includeArchived
    /\ StateStep(renderTable([state EXCEPT !.includeArchived = includeArchived],
                             items,
                             Cardinality({channelId \in ChannelIds :
                                            items[channelId].present})),
                 "load")

\* onmessage of the enrichment stream with a channel update.
StreamChannelEvent ==
  \E update \in StreamUpdates :
    StateStep(updateChannelRowFromStream(state, update), "event")

\* handleArchiveChannel after the archive request returned.
ArchiveChannelReturn ==
  \E channelId \in ChannelIds :
    /\ state.rows[channelId].present
    /\ ~state.rows[channelId].archived
    /\ StateStep(markChannelArchived(state, channelId), "archive")

NextPage ==
  \/ LoadChannelsReturn
  \/ StreamChannelEvent
  \/ ArchiveChannelReturn

SpecPage == Init /\ [][NextPage]_vars

\* ------------------------------------------------------- model soundness
\* The single slots `loop`, `run` and `manual` are never overwritten: a call
\* that takes a slot finds it idle.  (A start request in flight keeps
\* enrichmentBusy set and no stream is open meanwhile, so nothing clears it.)
RefreshTask == Task("refresh", 0, Null)
EnrichHandlers == BagCardinality(doneH) - CopiesIn(RefreshTask, doneH)
StartRequestsInFlight ==
  (IF loop.pc = "enrich" THEN 1 ELSE 0) + (IF run.pc = "enrich" THEN 1 ELSE 0)
  + (IF manual.pc = "enrich" THEN 1 ELSE 0) + EnrichHandlers

SlotsConsistent ==
  /\ (loop.pc # "idle") <=> discoveryLoopActive
  /\ loopInstances = IF discoveryLoopActive THEN 1 ELSE 0
  /\ StartRequestsInFlight > 0 => enrichmentBusy /\ eventSource = NoJob

\* ----------------------------------------------------------------- claims
\* C1: for every enrichment job completed + errored + skipped never
\* decreases and never exceeds total; done is true exactly when the sum
\* equals total; done never goes back to false and the done event is emitted
\* exactly when the job becomes done, once.
C1_JobCounters ==
  /\ [](\A j \in 1..Len(jobs) :
          /\ Settled(jobs[j]) <= jobs[j].total
          /\ jobs[j].done <=> Settled(jobs[j]) = jobs[j].total
          /\ jobs[j].doneEvents = IF jobs[j].done THEN 1 ELSE 0)
  /\ [][\A j \in 1..Len(jobs) :
          /\ Settled(jobs'[j]) >= Settled(jobs[j])
          /\ jobs[j].done => jobs'[j].done]_vars

\* C1 witness: a job of two entities is done with one error and one skip.
C1_Witness ==
  \E j \in 1..Len(jobs) :
    /\ jobs[j].done
    /\ jobs[j].total = 2 /\ jobs[j].errored = 1 /\ jobs[j].skipped = 1

\* C2: startDiscoveryLoop called while a loop is active changes nothing (no
\* flag, no counter, no payload, no start notification, no second run
\* sequence), and at most one run sequence exists at any time.
C2_StartWhileActiveIsNoOp ==
  /\ [](loopInstances <= 1)
  /\ [][(discoveryLoopActive /\ StartDiscoveryLoop) => UNCHANGED vars]_vars

\* C2 witness: a loop is in the middle of its second run and a further loop
\* could still be started; startDiscoveryLoop called here is the no-op.
C2_Witness ==
  /\ discoveryLoopActive
  /\ loop.pc = "run" /\ discoveryLoopStats.runs = 1
  /\ discoveriesStarted < MaxDiscoveries

\* C3: stopDiscoveryLoop called while a stop is already pending, or while no
\* loop is active, changes nothing and sends no stop notification; a loop
\* gets at most one stop notification.
C3_StopIsIdempotent ==
  /\ [](stopNotifications <= 1)
  /\ [][((~discoveryLoopActive \/ discoveryLoopStopping) /\ StopDiscoveryLoop)
          => UNCHANGED vars]_vars

\* C3 witness: a stop is pending on an active loop, its notification sent.
C3_Witness ==
  discoveryLoopActive /\ discoveryLoopStopping /\ stopNotifications = 1

InFlightRun == {"run", "enrich"}

\* C4: a stop requested while a run is in flight leaves the run in flight;
\* when the run returns it is counted (runs + 1, discovered + found) unless
\* the discovery request itself failed; and the loop then leaves at the
\* progress notification with reason 'stopped' and the counts so reached.
C4_StopDoesNotInterruptRun ==
  [][/\ (discoveryLoopActive /\ ~discoveryLoopStopping /\ discoveryLoopStopping'
          /\ loop.pc \in InFlightRun)
        => (loop' = loop /\ discoveryLoopStats' = discoveryLoopStats
            /\ discoveryLoopActive')
     /\ (discoveryLoopActive /\ discoveryLoopStopping /\ loop.pc \in InFlightRun
          /\ loop' # loop)
        => \/ /\ loop.pc = "run" /\ loop'.pc = "enrich"
              /\ discoveryLoopActive' /\ discoveryLoopStopping'
              /\ discoveryLoopStats' = discoveryLoopStats
           \/ /\ loop'.pc = "progress"
              /\ discoveryLoopActive' /\ discoveryLoopStopping'
              /\ discoveryLoopStats'.runs = discoveryLoopStats.runs + 1
              /\ IF loop.pc = "enrich"
                 THEN discoveryLoopStats'.found
                        = discoveryLoopStats.found + loop.found
                 ELSE discoveryLoopStats'.found - discoveryLoopStats.found
                        \in FoundValues
           \/ /\ loop.pc = "run" /\ loop'.pc = "idle"
              /\ discoveryLoopCompletionPayload'.reason = "error"
     /\ (discoveryLoopActive /\ discoveryLoopStopping /\ loop.pc = "progress"
          /\ loop' # loop)
        => /\ ~discoveryLoopActive'
           /\ discoveryLoopStats' = discoveryLoopStats
           /\ discoveryLoopCompletionPayload' =
                [runs |-> discoveryLoopStats.runs,
                 discovered |-> discoveryLoopStats.found,
                 reason |-> "stopped", error |-> FALSE]]_vars

\* C4 witness: the stop has been requested during run 2, the first run having
\* found 2 entities.
C4_Witness ==
  /\ discoveryLoopActive /\ discoveryLoopStopping
  /\ loop.pc = "run"
  /\ discoveryLoopStats = [runs |-> 1, found |-> 2]

\* C4, the scenario's end: runs = 2, discovered = 4, reason 'stopped'.
C4_ScenarioEnd ==
  /\ ~discoveryLoopActive
  /\ discoveryLoopCompletionPayload =
       [runs |-> 2, discovered |-> 4, reason |-> "stopped", error |-> FALSE]

\* C5: while a stop is pending the loop issues no discovery request; from
\* the progress notification (stop arrived during the run) and from the
\* inter-run delay (stop arrived during the delay) its next step is the exit.
C5_NoRunAfterStop ==
  [][(discoveryLoopActive /\ discoveryLoopStopping)
       => /\ ~(loop.pc # "run" /\ loop'.pc = "run")
          /\ (loop.pc \in {"progress", "delay", "notifyStart"} /\ loop' # loop)
               => (loop'.pc = "idle" /\ ~discoveryLoopActive')]_vars

\* C5 witness: the stop arrived during the inter-run delay.
C5_Witness ==
  discoveryLoopActive /\ discoveryLoopStopping /\ loop.pc = "delay"

\* A done handler resumes after its loadStats/loadTable wait in this step.
DoneRefreshStep == CopiesIn(RefreshTask, doneH') < CopiesIn(RefreshTask, doneH)

\* The step issues exactly one start request, by the resuming done handler,
\* with the given limit.
DoneHandlerStarts(limit) ==
  /\ doneH' = (doneH (-) SetToBag({RefreshTask}))
                (+) SetToBag({Task("enrich", 0, limit)})
  /\ enrichmentBusy'
  /\ loop' = loop /\ run' = run /\ manual' = manual

\* C6 as stated: whenever the done handler of a job resumes with auto-enrich
\* requests queued (auto-enrich being enabled), it issues exactly one start
\* whose limit is the queued sum, and the pending count becomes 0.
C6_StartIssuedAfterEveryDone ==
  [][(DoneRefreshStep /\ pendingAutoEnrich > 0
        /\ discoverySettings.autoEnrichEnabled)
       => (pendingAutoEnrich' = 0 /\ DoneHandlerStarts(pendingAutoEnrich))]_vars

\* C6 amended: with auto-enrich enabled, a request made by a discovery run
\* while a job is busy issues no start and adds its count to the pending
\* count; when the done handler of a job resumes with a pending count q > 0
\* it issues exactly one start with limit q and sets the pending count to 0
\* if no other enrichment has become busy since the done event, and
\* otherwise issues no start and leaves q queued behind that enrichment.
C6_DeferredNotDropped ==
  [][/\ (loop.pc = "run" /\ loop' # loop /\ loop'.pc # "idle"
          /\ enrichmentBusy /\ discoverySettings.autoEnrichEnabled)
        => /\ loop'.pc = "progress"
           /\ pendingAutoEnrich' = pendingAutoEnrich
                + (discoveryLoopStats'.found - discoveryLoopStats.found)
     /\ (run.pc = "run" /\ run' # run /\ enrichmentBusy
          /\ discoverySettings.autoEnrichEnabled)
        => /\ run'.pc = "idle"
           /\ pendingAutoEnrich' - pendingAutoEnrich \in FoundValues
     /\ (DoneRefreshStep /\ pendingAutoEnrich > 0
          /\ discoverySettings.autoEnrichEnabled)
        => IF enrichmentBusy
           THEN /\ pendingAutoEnrich' = pendingAutoEnrich
                /\ doneH' = doneH (-) SetToBag({RefreshTask})
                /\ loop' = loop /\ run' = run /\ manual' = manual
           ELSE /\ pendingAutoEnrich' = 0
                /\ DoneHandlerStarts(pendingAutoEnrich)]_vars

\* C6 witness: a done handler has issued the start for two queued requests
\* of 2 entities each, limit 4, and nothing is pending any more.
C6_Witness ==
  /\ BagIn(Task("enrich", 0, 4), doneH)
  /\ pendingAutoEnrich = 0

\* C7: handleEnrich called while enrichmentBusy is set changes nothing and
\* sends nothing; at most one start request is in flight at any time, and
\* while it is in flight enrichmentBusy is set.
C7_SingleFlightManualEnrich ==
  /\ [](StartRequestsInFlight <= 1)
  /\ [](StartRequestsInFlight = 1 => enrichmentBusy)
  /\ [][(enrichmentBusy /\ HandleEnrich) => UNCHANGED vars]_vars

\* C7 witness: a job started by auto-enrich is streaming (busy) while the
\* user can click enrich; that click is the ignored call.
C7_Witness ==
  /\ enrichmentBusy /\ eventSource # NoJob
  /\ manual.pc = "idle"
  /\ jobsStarted < MaxJobs

\* C8: a failed discovery run ends the loop in the same step, with no further
\* run, and queues the completion with reason 'error' and the counts of the
\* successful runs before it.
C8_ErrorKeepsProgress ==
  [][(loop.pc = "run" /\ loop'.pc = "idle")
       => /\ ~discoveryLoopActive'
          /\ discoveryLoopStats' = discoveryLoopStats
          /\ discoveryLoopCompletionPayload' =
               [runs |-> discoveryLoopStats.runs,
                discovered |-> discoveryLoopStats.found,
                reason |-> "error", error |-> TRUE]]_vars

\* C8 witness: the loop failed in its second run after one run that found 2.
C8_Witness ==
  /\ ~discoveryLoopActive
  /\ discoveryLoopCompletionPayload =
       [runs |-> 1, discovered |-> 2, reason |-> "error", error |-> TRUE]

\* C9: a queued completion payload stays queued until a
\* notifyDiscoveryLoopComplete request carrying it returns successfully.
C9_PayloadKeptUntilDelivered ==
  [][(discoveryLoopCompletionPayload # NoPayload
        /\ discoveryLoopCompletionPayload' # discoveryLoopCompletionPayload)
       => /\ discoveryLoopCompletionPayload' = NoPayload
          /\ BagIn(discoveryLoopCompletionPayload, notifyInFlight)
          /\ notifyInFlight' =
               notifyInFlight (-) SetToBag({discoveryLoopCompletionPayload})
          /\ retryTimers' = retryTimers]_vars

\* A notifyDiscoveryLoopComplete request is issued in this step.
NotifyIssued == BagCardinality(notifyInFlight') > BagCardinality(notifyInFlight)

\* C10: at the moment notifyDiscoveryLoopComplete is issued the loop is not
\* active, no enrichment is busy and no auto-enrich is pending.
C10_NotifyOnlyWhenSettled ==
  [][NotifyIssued
       => /\ ~discoveryLoopActive'
          /\ ~enrichmentBusy'
          /\ pendingAutoEnrich' = 0
          /\ BagIn(discoveryLoopCompletionPayload', notifyInFlight')]_vars

\* C10 witness: a completion notification is in flight that had been deferred
\* behind an enrichment job (a done handler has run since the loop ended).
C10_Witness ==
  /\ notifyInFlight # EmptyBag
  /\ jobsStarted > 0
  /\ ~discoveryLoopActive /\ ~enrichmentBusy

\* No request, timer, stream or suspended handler is outstanding: only a user
\* action can make the controller run again.
SystemQuiet ==
  /\ loop.pc = "idle" /\ run.pc = "idle" /\ manual.pc = "idle"
  /\ doneH = EmptyBag
  /\ notifyInFlight = EmptyBag
  /\ retryTimers = 0
  /\ eventSource = NoJob

\* C11: a completion payload that was deferred behind enrichment is notified
\* once enrichment has settled: the controller never comes to rest, with the
\* loop inactive, no enrichment busy and nothing pending, while the payload is
\* still queued and no notifyDiscoveryLoopComplete was issued for it.
C11_SettledImpliesNotified ==
  (SystemQuiet /\ ~discoveryLoopActive /\ ~enrichmentBusy
     /\ pendingAutoEnrich = 0)
    => discoveryLoopCompletionPayload = NoPayload

\* A notifyDiscoveryLoopComplete call fails in this step.
NotifyFails == notifyFailures' = notifyFailures + 1

C13_SettingsFrozenWhileLoopActive ==
  [][discoveryLoopActive
       => /\ discoverySettings' = discoverySettings
          /\ (discoverSettingsOpen' => discoverSettingsOpen)]_vars

\* C13 witness: a loop started from a submitted form with auto-enrich switched
\* on is between two runs, the dialog having been opened and closed by the
\* submit; the discover button and a submit are both refused here.
C13_Witness ==
  /\ discoveryLoopActive /\ loop.pc = "delay"
  /\ discoverySettings.autoEnrichEnabled
  /\ ~discoverSettingsOpen
  /\ discoveryLoopStats.runs = 1

\* C14: at most one fetchStats request is in flight; a loadStats call made
\* while one is in flight sends none; and a loadStats call made when no
\* fetchStats request is in flight, the last one having settled by success or
\* by failure, sends a new one.
C14_NewRequestOnceSettled ==
  /\ [](fetchStatsInFlight <= 1)
  /\ [][statsCalls' = statsCalls + 1
         => fetchStatsInFlight' = 1]_vars

\* C14 amended: at most one poll is in progress, a poll being the fetchStats
\* request and, after its success, maybeRefreshAfterLoop with its table
\* refresh; statsPromise is set exactly while a poll is in progress; a
\* loadStats call made meanwhile sends nothing, and a call made when no poll
\* is in progress sends a new request.
C14_SingleFlightPoll ==
  /\ [](fetchStatsInFlight + statsRefreshInFlight <= 1)
  /\ [](statsPromise <=> fetchStatsInFlight + statsRefreshInFlight = 1)
  /\ [][statsCalls' = statsCalls + 1
         => IF statsPromise
            THEN /\ fetchStatsInFlight' = fetchStatsInFlight
                 /\ statsRefreshInFlight' = statsRefreshInFlight
                 /\ statsPromise'
            ELSE fetchStatsInFlight' = 1 /\ statsPromise']_vars

\* C14 witness: a request is in flight that was sent after the previous one
\* had failed, and an earlier call had been suppressed.
C14_Witness ==
  /\ lastStatsOutcome = "failed"
  /\ fetchStatsInFlight = 1
  /\ statsCalls = 3

\* A table refresh for a loop completion starts in this step.
StatsRefreshStarts == statsRefreshInFlight' > statsRefreshInFlight

DefaultingRules(item, n) ==
  IF item = Absent \/ item = Unparsable THEN n = DefaultSettings
  ELSE
    /\ ~(item.perKeyword.kind = "num" /\ item.perKeyword.val > 0)
         => n.perKeyword = 5 * Unit
    /\ ~(item.lastUploadMaxAgeDays.kind = "num"
           /\ item.lastUploadMaxAgeDays.val > 0)
         => n.lastUploadMaxAgeDays = Null
    /\ ~(item.enrichLimit.kind = "num" /\ item.enrichLimit.val > 0)
         => n.enrichLimit = Null
    /\ item.autoEnrichMode # "full" => n.autoEnrichMode = "email_only"

\* C16: the current settings, saved and loaded again, come back identical
\* (keyword list, perKeyword, lastUploadMaxAgeDays, enrichLimit and the
\* flags); normalizing the normalized stored item changes nothing; and the
\* stored item is defaulted by the rules above.
C16_SettingsRoundTrip ==
  /\ loadDiscoverySettings(Stringify(fullSettings)) = fullSettings
  /\ LET n == loadDiscoverySettings(localStorage) IN
       /\ normalizeDiscoverySettings(Stringify(n)) = n
       /\ DefaultingRules(localStorage, n)

\* C17: a handleEnrich call, or a submit of the dialog, whose limit is zero,
\* negative or not a number changes nothing: enrichmentBusy keeps its value
\* (false if the client was idle), the pending auto-enrich count is the same,
\* no start request is in flight that was not before and no stream is opened.
C17_InvalidLimitRejected ==
  [][invalidLimitCalls' # invalidLimitCalls
       => /\ UNCHANGED <<clientVars, streamTotal>>
          /\ ~enrichmentBusy => ~enrichmentBusy'
          /\ pendingAutoEnrich' = pendingAutoEnrich
          /\ manual' = manual /\ jobsStarted' = jobsStarted
          /\ eventSource' = eventSource]_vars

\* An invalid limit was given to an idle client that holds a queued count.
C17_Witness ==
  /\ invalidLimitCalls > 0
  /\ ~enrichmentBusy
  /\ pendingAutoEnrich > 0

\* C18: a submit of the settings dialog with an empty keyword list changes
\* nothing: the discovery settings and the loop state are as before, and
\* neither a discovery run nor a loop is started.
C18_EmptyKeywordsRejected ==
  [][emptyKeywordSubmits' # emptyKeywordSubmits
       => /\ discoverySettings' = discoverySettings
          /\ UNCHANGED <<discoveryLoopActive, discoveryLoopStopping,
                         discoveryLoopStats, discoveryLoopCompletionPayload,
                         loop, loopInstances>>
          /\ run' = run
          /\ discoveriesStarted' = discoveriesStarted
          /\ UNCHANGED clientVars]_vars

\* An empty keyword list was submitted although no loop had ever been started,
\* so the loop guard is not what turned it down.
C18_Witness ==
  /\ emptyKeywordSubmits > 0
  /\ discoveriesStarted = 0
  /\ ~discoveryLoopActive

\* C19: a start reply with total = 0 is a no-op success: the step that takes
\* the reply leaves the client not busy and with no stream open.
C19_EmptyJobIsNoOp ==
  [][(jobsStarted' # jobsStarted /\ streamTotal' = 0)
       => (eventSource' = NoJob /\ ~enrichmentBusy')]_vars

\* C20: while the start request that a one-shot run with n > 0 new entities
\* triggered is in flight, its limit is n and does not exceed the configured
\* enrichment limit.  (The settings cannot change before the run is over; the
\* mode is passed on as configured and is not part of the state.)
C20_AutoEnrichWithinConfiguredLimit ==
  (run.pc = "enrich" /\ discoverySettings.autoEnrichEnabled)
    => /\ run.found > 0
       /\ run.limit = run.found
       /\ \/ discoverySettings.enrichLimit = Null
          \/ run.limit <= discoverySettings.enrichLimit

\* C22: a 'channel' event patches the view in place.  In every category table
\* the row count, the row order (the channel id at each position), the total,
\* the page and the page size are as before and no load is started; a row with
\* another channel id is untouched, a field the payload does not carry keeps
\* its value, and a payload without a channel id or for a channel that is not
\* in the view changes nothing.
InView(channelId) ==
  \E category \in Categories :
    \E i \in 1..Len(tables[category].rows) :
      tables[category].rows[i].channel_id = channelId

C22_ChannelEventPatchesInPlace ==
  [][channelEvents' # channelEvents
       => /\ tableLoads' = tableLoads
          /\ \A category \in Categories :
               LET old == tables[category]
                   new == tables'[category]
               IN /\ Len(new.rows) = Len(old.rows)
                  /\ new.total = old.total
                  /\ new.page = old.page
                  /\ new.limit = old.limit
                  /\ \A i \in 1..Len(old.rows) :
                       /\ new.rows[i].channel_id = old.rows[i].channel_id
                       /\ old.rows[i].channel_id # lastUpdate'.channelId
                            => new.rows[i] = old.rows[i]
                       /\ "status" \notin lastUpdate'.carries
                            => new.rows[i].status = old.rows[i].status
                       /\ "statusReason" \notin lastUpdate'.carries
                            => new.rows[i].status_reason
                                 = old.rows[i].status_reason
                       /\ "emails" \notin lastUpdate'.carries
                            => new.rows[i].emails = old.rows[i].emails
          /\ (lastUpdate'.channelId = 0 \/ ~InView(lastUpdate'.channelId))
               => tables' = tables]_vars

\* An event that carried a status only has changed the row of channel 1, which
\* stands next to the row of channel 2.
C22_Witness ==
  /\ channelEvents > 0
  /\ lastUpdate.channelId = 1
  /\ lastUpdate.carries = {"status"}
  /\ \E category \in Categories :
       /\ Len(tables[category].rows) = 2
       /\ \E i \in 1..2 :
            /\ tables[category].rows[i].channel_id = 1
            /\ tables[category].rows[i].status = lastUpdate.status
            /\ tables[category].rows[i].status_reason = "timeout"
            /\ lastUpdate.status = "completed"

\* C21: category and enrichment status change independently.  A stream patch
\* leaves the archived state of every row as it was, an archive call leaves the
\* status and status reason of the rows it keeps as they were, and no single
\* step changes both the archived state and the status of a row.
RowKept(channelId) ==
  state.rows[channelId].present /\ state'.rows[channelId].present

C21_CategoryAndStatusIndependent ==
  [][\A channelId \in ChannelIds :
       RowKept(channelId) =>
         LET old == state.rows[channelId]
             new == state'.rows[channelId]
         IN /\ stateOp' = "event" => new.archived = old.archived
            /\ stateOp' = "archive"
                 => /\ new.status = old.status
                    /\ new.status_reason = old.status_reason
            /\ stateOp' # "load"
                 => ~(new.archived # old.archived /\ new.status # old.status)
    ]_vars

\* C30: the status reason is cleared when the status leaves error: after a
\* 'channel' event that moves a row of the view from status error to another
\* status, the row's status reason is empty.
C30_ReasonClearedOnLeavingError ==
  [][channelEvents' # channelEvents
       => \A category \in Categories :
            \A i \in 1..Len(tables[category].rows) :
              (/\ tables[category].rows[i].status = "error"
               /\ tables'[category].rows[i].status # "error")
                => tables'[category].rows[i].status_reason = NoText]_vars

Awaiting(jobId) == jobs[jobId].targets \ jobs[jobId].recorded

C24_DoneJobTargetsSettled ==
  \A jobId \in 1..Len(jobs) :
    jobs[jobId].done
      => \A entityId \in jobs[jobId].targets :
           entities[entityId].status \in {"completed", "error"}

\* C24: no entity stays Processing after its owning job is done.  An entity
\* that is Processing awaits its outcome in a job that is not done, and each
\* target of a done job is Completed or Error unless another job that is not
\* done has selected it since and still awaits its outcome.
Owned(entityId) ==
  \E jobId \in 1..Len(jobs) :
    ~jobs[jobId].done /\ entityId \in Awaiting(jobId)

C24_NoneStuckInProcessing ==
  /\ \A entityId \in EntityIds :
       entities[entityId].status = "processing" => Owned(entityId)
  /\ \A jobId \in 1..Len(jobs) :
       jobs[jobId].done
         => \A entityId \in jobs[jobId].targets :
              \/ entities[entityId].status \in {"completed", "error"}
              \/ Owned(entityId)

\* The first job is done after a failure, and one of its entities is
\* Processing again for the second job.
C24_Witness ==
  /\ Len(jobs) = 2
  /\ jobs[1].done /\ jobs[1].errored > 0
  /\ ~jobs[2].done
  /\ \E entityId \in jobs[1].targets \cap jobs[2].targets :
       entities[entityId].status = "processing"
  /\ \E entityId \in jobs[1].targets :
       entities[entityId].status = "error"

\* C25: a single entity's failure never aborts the job.  A processing step
\* with outcome Error sets that entity to Error with the reported reason,
\* leaves every other entity alone, adds exactly 1 to the job's errored count
\* and nothing to the other counts, and leaves the job done only if no target
\* awaits its outcome; a job is done exactly when every target has its
\* outcome, so a job whose entities all failed is done with errored = total.
C25_FailureDoesNotAbortJob ==
  /\ [](\A jobId \in 1..Len(jobs) :
          /\ jobs[jobId].done <=> Awaiting(jobId) = {}
          /\ jobs[jobId].errored = jobs[jobId].total => jobs[jobId].done)
  /\ [][(/\ lastProcessed'.steps # lastProcessed.steps
         /\ lastProcessed'.outcome = "Error")
          => LET jobId == lastProcessed'.jobId
                 entityId == lastProcessed'.entityId
             IN /\ entities'[entityId].status = "error"
                /\ entities'[entityId].status_reason = "timeout"
                /\ \A other \in EntityIds \ {entityId} :
                     entities'[other] = entities[other]
                /\ jobs'[jobId].errored = jobs[jobId].errored + 1
                /\ jobs'[jobId].completed = jobs[jobId].completed
                /\ jobs'[jobId].skipped = jobs[jobId].skipped
                /\ Len(jobs') = Len(jobs)
                /\ \A other \in (1..Len(jobs)) \ {jobId} :
                     jobs'[other] = jobs[other]]_vars

\* Both entities of a job have failed, and the job is done with
\* errored = total.
C25_Witness ==
  /\ lastProcessed.steps >= 2
  /\ lastProcessed.outcome = "Error"
  /\ jobs[lastProcessed.jobId].total = 2
  /\ jobs[lastProcessed.jobId].errored = 2
  /\ jobs[lastProcessed.jobId].done
  /\ \A entityId \in jobs[lastProcessed.jobId].targets :
       entities[entityId].status = "error"

\* C27: the total of a job is min(limit, number of eligible entities), and the
\* entities a start() call does not select keep the category, status and
\* reason they had; the selected ones are eligible, become Processing and are
\* the target set of the job.
C27_TotalWithinLimitAndEligible ==
  [][lastStart'.calls # lastStart.calls
       => LET call == lastStart'
              eligible == Cardinality(call.eligible)
          IN /\ call.reply.total <= eligible
             /\ call.limit # Null
                  => call.reply.total
                       = IF call.limit <= eligible THEN call.limit
                         ELSE eligible
             /\ call.selected \subseteq call.eligible
             /\ call.reply.total = Cardinality(call.selected)
             /\ \A entityId \in EntityIds \ call.selected :
                  entities'[entityId] = entities[entityId]
             /\ \A entityId \in call.selected :
                  entities'[entityId].status = "processing"
             /\ call.reply.jobId # NoJob
                  => /\ jobs'[call.reply.jobId].total = call.reply.total
                     /\ jobs'[call.reply.jobId].targets = call.selected
    ]_vars

\* A start() with limit 1 found two eligible entities: the job has total 1 and
\* the entity left out still has the status it had.
C27_Witness ==
  /\ lastStart.calls > 0
  /\ lastStart.limit = 1
  /\ Cardinality(lastStart.eligible) = 2
  /\ lastStart.reply.total = 1
  /\ \E entityId \in lastStart.eligible \ lastStart.selected :
       /\ entities[entityId].status = lastStart.before[entityId].status
       /\ entities[entityId].status # "processing"

\* C26: a late subscriber sees the current snapshot first and misses no later
\* event.  On every stream the events handled and queued so far are, in
\* order, the job's counts at subscription time and then one event for each
\* outcome recorded since; after the first handled event the client showed
\* the completed and error counts of subscription time.
Received(sub) == [i \in 1..Len(sub.log) |-> sub.log[i].payload] \o sub.queue

C26_LateSubscriberGetsSnapshotFirst ==
  \A i \in DOMAIN subscribers :
    LET sub == subscribers[i]
        job == jobs[sub.jobId]
        events == Received(sub)
    IN /\ sub.open =>
            /\ Len(events) = 1 + Settled(job) - Settled(sub.atSubscribe)
            /\ Len(events) > 0
            /\ events[Len(events)].completed = job.completed
            /\ events[Len(events)].errors = job.errored
            /\ events[Len(events)].skipped = job.skipped
       /\ \A n \in 1..Len(events) :
            /\ events[n].completed + events[n].errors + events[n].skipped
                 = Settled(sub.atSubscribe) + n - 1
            /\ events[n].jobId = sub.jobId
       /\ Len(sub.log) > 0 =>
            /\ sub.log[1].payload.completed = sub.atSubscribe.completed
            /\ sub.log[1].payload.errors = sub.atSubscribe.errored
            /\ sub.log[1].payload.skipped = sub.atSubscribe.skipped
            /\ sub.log[1].shown.completed = sub.atSubscribe.completed
            /\ sub.log[1].shown.errors = sub.atSubscribe.errored

\* Two streams of one job, the second opened after an outcome was recorded:
\* its client has handled the snapshot and a later event, and so has the
\* client of the first stream.
C26_Witness ==
  /\ Len(subscribers) = 2
  /\ subscribers[1].jobId = subscribers[2].jobId
  /\ Settled(subscribers[1].atSubscribe) = 0
  /\ Settled(subscribers[2].atSubscribe) = 1
  /\ Len(subscribers[2].log) = 2
  /\ Len(subscribers[1].log) = 3
  /\ subscribers[2].log[2] # subscribers[2].log[1]
  /\ subscribers[1].log[3].payload = subscribers[2].log[2].payload

\* C28: for every progress event a client has handled, the pending count the
\* event carries is total - completed - errored - skipped, and the pending
\* count the client showed for it is that value too, whether the event
\* carried the pending field or the client computed it.
C28_PendingShownMatchesCounts ==
  \A i \in DOMAIN subscribers :
    \A n \in 1..Len(subscribers[i].log) :
      LET payload == subscribers[i].log[n].payload
          shown == subscribers[i].log[n].shown
          pending == jobs[subscribers[i].jobId].total - payload.completed
                       - payload.errors - payload.skipped
      IN /\ "pending" \in payload.carries => payload.pending = pending
         /\ shown.pending = pending

\* C29: on every stream the client opens, completion is handled once and as
\* the last event.  A stream has handled at most one done event; once it has,
\* that event is the last one it handled, the stream is closed and the
\* completion steps have run once for it; the step that handles the done
\* event leaves this.eventSource null and enrichmentBusy false.
DoneHandled(stream) ==
  {n \in 1..Len(stream.handled) : stream.handled[n] = "done"}

C29_CompletionHandledOnceAndLast ==
  /\ [](\A id \in DOMAIN streams :
          /\ Cardinality(DoneHandled(streams[id])) <= 1
          /\ streams[id].completions = Cardinality(DoneHandled(streams[id]))
          /\ DoneHandled(streams[id]) # {}
               => /\ DoneHandled(streams[id]) = {Len(streams[id].handled)}
                  /\ streams[id].readyState = "closed")
  /\ [][\A id \in DOMAIN streams :
          (/\ Len(streams'[id].handled) > Len(streams[id].handled)
           /\ streams'[id].handled[Len(streams'[id].handled)] = "done")
            => /\ eventSource' = NoJob
               /\ ~enrichmentBusy'
               /\ streams'[id].readyState = "closed"]_vars

\* A stream has handled a progress event and then the done event, and a
\* message the server sent after it is still undelivered on the closed stream.
C29_Witness ==
  \E id \in DOMAIN streams :
    /\ streams[id].handled = <<"progress", "done">>
    /\ streams[id].queue # <<>>
    /\ streams[id].readyState = "closed"
    /\ streams[id].completions = 1

\* C31: the loop counters.  The step that starts a loop leaves both counters
\* at 0.  While the loop is active a step either leaves the counters alone or
\* is the return of a successful run, which adds exactly 1 to the run counter
\* and the run's found count to the discovered counter; the return of a
\* failed run changes neither.
C31_LoopCounters ==
  [][LET old == discoveryLoopStats
         new == discoveryLoopStats'
     IN /\ (~discoveryLoopActive /\ discoveryLoopActive')
             => new = [runs |-> 0, found |-> 0]
        /\ (discoveryLoopActive /\ discoveryLoopActive')
             => /\ new.runs >= old.runs /\ new.found >= old.found
                /\ new # old
                     => /\ new.runs = old.runs + 1
                        /\ loop.pc \in {"run", "enrich"}
                        /\ loop'.pc = "progress"
                        /\ IF loop.pc = "enrich"
                           THEN new.found = old.found + loop.found
                           ELSE new.found - old.found \in FoundValues
        /\ (discoveryLoopActive /\ loop.pc = "run" /\ loop'.pc = "idle")
             => new = old
        /\ (loop.pc \in {"run", "enrich"} /\ loop'.pc = "progress")
             => new.runs = old.runs + 1
    ]_vars

\* A loop started after an earlier loop or run has counted two runs, one of
\* which found two channels.
C31_Witness ==
  /\ discoveryLoopActive
  /\ discoveriesStarted = 2
  /\ discoveryLoopStats = [runs |-> 2, found |-> 2]

\* C35: a failed enrichment start restores the client.  After the step in
\* which a start request fails, enrichmentBusy is false and no stream is open;
\* the pending auto-enrich count has grown by the requested limit if the
\* request was auto-triggered (by the loop, a one-shot run or a done handler)
\* and is unchanged if it was manual.
StartFailed(old, new) ==
  old.pc = "enrich" /\ new.pc # "enrich" /\ jobsStarted' = jobsStarted

Restored == ~enrichmentBusy' /\ eventSource' = NoJob

C35_FailedStartRestoresState ==
  [][/\ StartFailed(manual, manual')
          => Restored /\ pendingAutoEnrich' = pendingAutoEnrich
     /\ StartFailed(loop, loop')
          => Restored /\ pendingAutoEnrich' = pendingAutoEnrich + loop.limit
     /\ StartFailed(run, run')
          => Restored /\ pendingAutoEnrich' = pendingAutoEnrich + run.limit
     /\ \A h \in BagToSet(doneH) :
          (/\ h.pc = "enrich"
           /\ doneH' = doneH (-) SetToBag({h})
           /\ jobsStarted' = jobsStarted)
            => Restored /\ pendingAutoEnrich' = pendingAutoEnrich + h.limit
    ]_vars

\* The loop's auto-enrich start for two channels has failed: nothing was
\* started, nothing is busy, no stream is open and the two channels are queued.
C35_Witness ==
  /\ loop.pc = "progress"
  /\ jobsStarted = 0
  /\ manual.pc = "idle" /\ run.pc = "idle"
  /\ ~enrichmentBusy /\ eventSource = NoJob
  /\ pendingAutoEnrich = 2

\* C36: queued auto-enrich requests exist only while a job that will consume
\* them is in flight: a pending auto-enrich count above zero implies that
\* enrichmentBusy is true.
C36_QueuedOnlyWhileBusy ==
  pendingAutoEnrich > 0 => enrichmentBusy

\* C37: at most one enrichment stream is open at any time, and an open stream
\* implies enrichmentBusy.  The open stream is the one this.eventSource refers
\* to, and every step that clears enrichmentBusy (done, stream error, failed
\* start) leaves no stream open.
OpenStreams == {id \in DOMAIN streams : streams[id].readyState = "open"}

C37_OneStreamOnlyWhileBusy ==
  /\ [](/\ Cardinality(OpenStreams) <= 1
        /\ OpenStreams # {}
             => /\ OpenStreams = {Len(streams)}
                /\ eventSource # NoJob
                /\ enrichmentBusy
        /\ eventSource # NoJob => enrichmentBusy /\ OpenStreams # {})
  /\ [][(enrichmentBusy /\ ~enrichmentBusy')
          => /\ eventSource' = NoJob
             /\ \A id \in DOMAIN streams' :
                  streams'[id].readyState = "closed"]_vars

\* A second stream is open for a second job while the first one, which ended
\* with its done event, is closed.
C37_Witness ==
  /\ Len(streams) = 2
  /\ streams[1].readyState = "closed"
  /\ "done" \in {streams[1].handled[n] : n \in 1..Len(streams[1].handled)}
  /\ streams[2].readyState = "open"
  /\ enrichmentBusy

\* C38: at most one notifyDiscoveryLoopComplete request is in flight at any
\* time, and each queued completion payload is delivered successfully at most
\* once: a request is issued only when none is in flight, and it carries the
\* payload that is queued at that moment.
C38_SingleFlightNotify ==
  /\ [](BagCardinality(notifyInFlight) <= 1)
  /\ [][NotifyIssued
          => /\ notifyInFlight = EmptyBag
             /\ notifyInFlight' =
                  SetToBag({discoveryLoopCompletionPayload'})]_vars

\* C39: every loop exit queues one completion payload whose reason follows
\* from how the loop ended.  The step in which the loop becomes inactive
\* queues the counters with reason 'error' and the error flag exactly when it
\* is the return of a failed discovery run, whether or not a stop had been
\* requested, and with reason 'stopped' otherwise, which happens only after a
\* stop request; no payload, queued or in flight, has the reason 'completed'.
C39_ExitReason ==
  /\ [](/\ discoveryLoopCompletionPayload.reason # "completed"
        /\ \A p \in BagToSet(notifyInFlight) : p.reason # "completed")
  /\ [][(discoveryLoopActive /\ ~discoveryLoopActive')
          => /\ discoveryLoopCompletionPayload' =
                  [runs |-> discoveryLoopStats.runs,
                   discovered |-> discoveryLoopStats.found,
                   reason |-> IF loop.pc = "run" THEN "error" ELSE "stopped",
                   error |-> loop.pc = "run"]
             /\ loop.pc # "run" => discoveryLoopStopping
             /\ loop'.pc = "idle"]_vars

\* A loop whose stop had been requested ended by a failed run: the queued
\* payload has the reason 'error'.
C39_Witness ==
  /\ ~discoveryLoopActive
  /\ stopNotifications = 1
  /\ discoveryLoopCompletionPayload.reason = "error"
  /\ discoveryLoopCompletionPayload.error
  /\ discoveryLoopCompletionPayload.runs = 1

\* C40: the stop-requested flag is true only while the loop is active.  In
\* every state discoveryLoopStopping implies discoveryLoopActive; the step in
\* which a loop exits leaves both flags false, and the step that starts a loop
\* leaves the stop flag false, so the new loop runs until it is stopped.
C40_StoppingOnlyWhileActive ==
  /\ [](discoveryLoopStopping => discoveryLoopActive)
  /\ [][/\ (discoveryLoopActive /\ ~discoveryLoopActive')
             => ~discoveryLoopStopping'
        /\ (~discoveryLoopActive /\ discoveryLoopActive')
             => ~discoveryLoopStopping /\ ~discoveryLoopStopping'
        /\ (discoveryLoopStopping /\ ~discoveryLoopStopping')
             => ~discoveryLoopActive']_vars

\* A loop started after an earlier loop had exited is being stopped, while
\* the completion request of the earlier loop is still in flight.
C40_Witness ==
  /\ discoveryLoopActive
  /\ discoveryLoopStopping
  /\ stopNotifications = 1
  /\ notifyInFlight # EmptyBag

\* C32: a stopped loop ends, an unstopped loop does not.  Once a stop request
\* has been accepted for the active loop (within the modelled number of
\* runs) and the requests the loop awaits return, the loop becomes inactive
\* with a completion payload queued; and a loop exits only by a failed
\* discovery run or after a stop request.
C32_StopLeadsToExit ==
  /\ (/\ discoveryLoopActive
      /\ stopNotifications > 0
      /\ discoveryLoopStats.runs < MaxRuns)
       ~> (~discoveryLoopActive /\ discoveryLoopCompletionPayload # NoPayload)
  /\ [][(discoveryLoopActive /\ ~discoveryLoopActive')
          => \/ stopNotifications > 0
             \/ loop.pc = "run" /\ discoveryLoopCompletionPayload'.error]_vars

\* A loop has been stopped during its first run and has exited after counting
\* that run.
C32_Witness ==
  /\ ~discoveryLoopActive
  /\ stopNotifications = 1
  /\ loop.pc = "idle"
  /\ discoveryLoopCompletionPayload =
       [runs |-> 1, discovered |-> 0, reason |-> "stopped", error |-> FALSE]

\* Start requests of handleEnrich that have not returned yet.
StartsAwaited ==
  (IF loop.pc = "enrich" THEN 1 ELSE 0)
  + (IF run.pc = "enrich" THEN 1 ELSE 0)
  + (IF manual.pc = "enrich" THEN 1 ELSE 0)
  + BagCardinality([h \in {x \in DOMAIN doneH : x.pc = "enrich"} |->
                      doneH[h]])

\* C33: the client never stays blocked on an enrichment job.  When start
\* requests return and open streams end, a set busy flag is cleared again;
\* while the flag is set a start request is awaited or a stream is open; and
\* the flag is cleared only by the end of the stream or by a start request
\* that returned without opening one.
C33_BusyEventuallyCleared ==
  /\ enrichmentBusy ~> ~enrichmentBusy
  /\ [](enrichmentBusy => (eventSource # NoJob \/ StartsAwaited > 0))
  /\ [][(enrichmentBusy /\ ~enrichmentBusy')
          => \/ eventSource # NoJob /\ eventSource' = NoJob
             \/ /\ eventSource = NoJob /\ eventSource' = NoJob
                /\ StartsAwaited' < StartsAwaited]_vars

\* Two jobs were started one after the other and the stream of each has
\* delivered done: nothing is busy or queued, and both done handlers await
\* their refresh.
C33_Witness ==
  /\ ~enrichmentBusy
  /\ jobsStarted = 2
  /\ pendingAutoEnrich = 0
  /\ manual.pc = "idle"
  /\ run.pc = "idle"
  /\ BagCardinality(doneH) = 2

\* The aggregator reports completion v with no loop running, no channel
\* processing and no job active.
ReportedIdle(v) ==
  /\ aggregator.version = v
  /\ aggregator.last_completed_at
  /\ ~aggregator.running
  /\ ~aggregator.active

HandledOnce(v) == refreshed[v] = 1 /\ notified[v] = 1

====
